---- MODULE Spec2Model ----
(***************************************************************************)
(* Model of the pattern compiler and line reader of package log (log.go):  *)
(* the entry pattern compiler (parsePattern .. parseAlt), the time and     *)
(* host sub-compilers, the primitive scanners over a bytes.Reader cursor,  *)
(* Reader.Read over a line source (Spec), the print pattern compiler and   *)
(* Writer.Write (SpecWriter), and the scanners run alone (SpecScan).       *)
(*                                                                         *)
(* A string is a sequence of runes; a rune is a one-character TLA+ string; *)
(* NUL stands for the rune 0 that ReadRune hands back at the end of input. *)
(***************************************************************************)
EXTENDS Integers, Sequences, FiniteSets, TLC

\* ------------------------------------------------------------------ runes

NUL == "<0>"

Digits == <<"0", "1", "2", "3", "4", "5", "6", "7", "8", "9">>

Lower == <<"a", "b", "c", "d", "e", "f", "g", "h", "i", "j", "k", "l", "m",
           "n", "o", "p", "q", "r", "s", "t", "u", "v", "w", "x", "y", "z">>

Upper == <<"A", "B", "C", "D", "E", "F", "G", "H", "I", "J", "K", "L", "M",
           "N", "O", "P", "Q", "R", "S", "T", "U", "V", "W", "X", "Y", "Z">>

Punct == <<" ", "!", "\"", "#", "$", "%", "&", "'", "(", ")", "*", "+", ",",
           "-", ".", "/", ":", ";", "<", "=", ">", "?", "@", "[", "\\", "]",
           "^", "_", "{", "|", "}", "~", "\t">>

Range(s) == {s[k] : k \in DOMAIN s}

Runes == Range(Digits) \cup Range(Lower) \cup Range(Upper) \cup Range(Punct) \cup {NUL}

IndexOf(s, x) == CHOOSE k \in DOMAIN s : s[k] = x

\* the index of the first r in s, 0 when s holds none
IndexRune(s, r) ==
    IF r \in Range(s)
    THEN CHOOSE k \in DOMAIN s : s[k] = r /\ \A j \in 1..(k - 1) : s[j] # r
    ELSE 0

\* the number of runes of s before its first r
RunBefore(s, r) == IF r \in Range(s) THEN IndexRune(s, r) - 1 ELSE Len(s)

\* the number of runes at the head of s that are all in accept
RunWhile(s, accept) ==
    IF \A k \in DOMAIN s : s[k] \in accept THEN Len(s)
    ELSE (CHOOSE k \in DOMAIN s : s[k] \notin accept /\ \A j \in 1..(k - 1) : s[j] \in accept) - 1

\* the number of runes at the head of s that are those of t
RunEqual(s, t) ==
    IF \A k \in DOMAIN s \cap DOMAIN t : s[k] = t[k]
    THEN IF Len(s) < Len(t) THEN Len(s) ELSE Len(t)
    ELSE (CHOOSE k \in DOMAIN s \cap DOMAIN t :
              s[k] # t[k] /\ \A j \in 1..(k - 1) : s[j] = t[j]) - 1

\* the rune r repeated n times
Rep(r, n) == [k \in 1..n |-> r]

\* the code points of the runes of Punct, in the same order
PunctCode == <<32, 33, 34, 35, 36, 37, 38, 39, 40, 41, 42, 43, 44,
               45, 46, 47, 58, 59, 60, 61, 62, 63, 64, 91, 92, 93,
               94, 95, 123, 124, 125, 126, 9>>

\* the code point of a rune
Code(r) ==
    IF r = NUL THEN 0
    ELSE IF r \in Range(Digits) THEN 47 + IndexOf(Digits, r)
    ELSE IF r \in Range(Upper) THEN 64 + IndexOf(Upper, r)
    ELSE IF r \in Range(Lower) THEN 96 + IndexOf(Lower, r)
    ELSE PunctCode[IndexOf(Punct, r)]

isDigit == Range(Digits)

isHexa == isDigit \cup {"a", "b", "c", "d", "e", "f"} \cup {"A", "B", "C", "D", "E", "F"}

isLetter == Range(Lower) \cup Range(Upper)

isAlpha == isDigit \cup isLetter \cup {"-", "_"}

isBlank == {" ", "\t"}

isEOL == {NUL}

isQuote == {"'", "\""}

\* the value v under the name that F gives it
With(v, F(_)) == F(v)

\* ------------------------------------------------------- bytes.Reader cursor
\* A cursor is [i, prev]: the read offset and the offset of the rune that the
\* last operation read (-1 when the last operation was not a successful
\* ReadRune), as in bytes.Reader.

Cursor(i) == [i |-> i, prev |-> -1]

ReadRune(line, c) ==
    IF c.i >= Len(line)
    THEN [r |-> NUL, ok |-> FALSE, c |-> [i |-> c.i, prev |-> -1]]
    ELSE [r |-> line[c.i + 1], ok |-> TRUE, c |-> [i |-> c.i + 1, prev |-> c.i]]

UnreadRune(c) ==
    IF c.i <= 0 \/ c.prev < 0 THEN c ELSE [i |-> c.prev, prev |-> -1]

Seek(c, abs) == [i |-> abs, prev |-> -1]

\* the cursor after n more runes have been read from c
After(c, n) == IF n = 0 THEN c ELSE [i |-> c.i + n, prev |-> c.i + n - 1]

\* what is left to read at c
Rest(line, c) == SubSeq(line, c.i + 1, Len(line))

peek(line, c) ==
    LET rr == ReadRune(line, c)
    IN  [r |-> rr.r, c |-> UnreadRune(rr.c)]

\* ------------------------------------------------------------ conversions

RECURSIVE TrimLeftZero(_)
TrimLeftZero(s) ==
    IF s # <<>> /\ Head(s) = "0" THEN TrimLeftZero(Tail(s)) ELSE s

RECURSIVE DecVal(_)
DecVal(s) ==
    IF s = <<>> THEN 0
    ELSE 10 * DecVal(SubSeq(s, 1, Len(s) - 1)) + (IndexOf(Digits, s[Len(s)]) - 1)

RECURSIVE Itoa(_)
Itoa(n) ==
    IF n < 0 THEN <<"-">> \o Itoa(0 - n)
    ELSE IF n < 10 THEN <<Digits[n + 1]>>
    ELSE Itoa(n \div 10) \o <<Digits[(n % 10) + 1]>>

MaxInt64 == <<"9", "2", "2", "3", "3", "7", "2", "0", "3", "6",
              "8", "5", "4", "7", "7", "5", "8", "0", "7">>

RECURSIVE LexLess(_, _)
LexLess(a, b) ==
    IF b = <<>> THEN FALSE
    ELSE IF a = <<>> THEN TRUE
    ELSE IF Code(Head(a)) # Code(Head(b)) THEN Code(Head(a)) < Code(Head(b))
    ELSE LexLess(Tail(a), Tail(b))

\* strconv.ParseInt(part, 0, 64) of a text that does not start with "0":
\* base 10, so a hexadecimal letter is a syntax error
ParseInt64(part) ==
    IF \E k \in DOMAIN part : part[k] \notin isDigit
    THEN [err |-> "syntax", val |-> 0]
    ELSE IF Len(part) > Len(MaxInt64) \/ (Len(part) = Len(MaxInt64) /\ LexLess(MaxInt64, part))
    THEN [err |-> "range", val |-> 0]
    ELSE [err |-> "none", val |-> DecVal(part)]

ToLowerRune(r) == IF r \in Range(Upper) THEN Lower[IndexOf(Upper, r)] ELSE r

ToLower(s) == [k \in DOMAIN s |-> ToLowerRune(s[k])]

\* -------------------------------------------------------- primitive scanners

\* the digit loop of parseInt: it reads the run of accepted runes at the
\* cursor, n of them at most when n > 0, and then, unless it has its n
\* runes, one rune more, which ends it
parseIntLoop(n, line, c, accept) ==
    LET run == RunWhile(Rest(line, c), accept)
        k == IF n > 0 /\ run >= n THEN n ELSE run
        buf == SubSeq(Rest(line, c), 1, k)
        rr == ReadRune(line, After(c, k))
    IN  IF ~(n <= 0 \/ k < n) THEN [err |-> "none", c |-> After(c, k), buf |-> buf]
        ELSE IF ~rr.ok THEN [err |-> "EOF", c |-> rr.c, buf |-> buf]
        ELSE IF n = 0
        THEN [err |-> "none", c |-> UnreadRune(rr.c), buf |-> buf]
        ELSE [err |-> "pattern", c |-> rr.c, buf |-> buf]

\* parseInt(&i, n, str, accept): old is the value of *i before the call
parseInt(old, n, line, c, accept) ==
    With(parseIntLoop(n, line, c, accept), LAMBDA lp :
    With(TrimLeftZero(lp.buf), LAMBDA part :
    With(ParseInt64(part), LAMBDA pi :
        IF lp.err # "none" THEN [err |-> lp.err, c |-> lp.c, val |-> old]
        ELSE IF part = <<>> THEN [err |-> "none", c |-> lp.c, val |-> old]
        ELSE IF pi.err = "none" THEN [err |-> "none", c |-> lp.c, val |-> pi.val]
        ELSE [err |-> pi.err, c |-> lp.c, val |-> old])))

\* the rune loop of parseString: it reads the run of accepted runes at the
\* cursor, length of them at most when length > 0, and then, unless it has
\* its length, one rune more. The end of the input is read as rune 0: when
\* accept takes it, it is read again, until the length is reached or, for
\* want of a length, forever ("hang")
parseStringLoop(line, c, length, accept) ==
    LET run == RunWhile(Rest(line, c), accept)
        k == IF length > 0 /\ run >= length THEN length ELSE run
        buf == SubSeq(Rest(line, c), 1, k)
        rr == ReadRune(line, After(c, k))
    IN  IF ~(length <= 0 \/ k < length) THEN [hang |-> FALSE, c |-> After(c, k), buf |-> buf]
        ELSE IF rr.r \notin accept THEN [hang |-> FALSE, c |-> rr.c, buf |-> buf]
        ELSE IF length <= 0 THEN [hang |-> TRUE, c |-> rr.c, buf |-> buf]
        ELSE [hang |-> FALSE, c |-> rr.c, buf |-> buf \o Rep(rr.r, length - k)]

\* parseString(r, length, accept), with its deferred UnreadRune
parseString(line, c, length, accept) ==
    With(parseStringLoop(line, c, length, accept), LAMBDA lp :
    With(UnreadRune(lp.c), LAMBDA c2 :
        IF lp.hang THEN [err |-> "hang", c |-> lp.c, str |-> <<>>]
        ELSE IF length > 0 /\ Len(lp.buf) # length
        THEN [err |-> "pattern", c |-> c2, str |-> <<>>]
        ELSE [err |-> "none", c |-> c2, str |-> lp.buf]))

\* the literal matchers parseLiteral, parseWhenLiteral, parseHostLiteral:
\* the runes of str are read one by one up to the first that differs
matchLiteral(str, line, c) ==
    LET k == RunEqual(str, Rest(line, c))
        rr == ReadRune(line, After(c, k))
    IN  IF k = Len(str) THEN [err |-> "none", c |-> After(c, k)]
        ELSE [err |-> "pattern", c |-> rr.c]

\* ------------------------------------------------------------ sorted tables

\* sort.Strings: insertion of x into the sorted sequence a
RECURSIVE InsertSorted(_, _)
InsertSorted(a, x) ==
    IF a = <<>> THEN <<x>>
    ELSE IF LexLess(x, Head(a)) THEN <<x>> \o a
    ELSE <<Head(a)>> \o InsertSorted(Tail(a), x)

RECURSIVE SortStrings(_)
SortStrings(a) ==
    IF a = <<>> THEN <<>> ELSE InsertSorted(SortStrings(Tail(a)), Head(a))

\* sort.SearchStrings(a, x): the number of entries of a that are < x
SearchStrings(a, x) == Cardinality({k \in DOMAIN a : LexLess(a[k], x)})

\* the tables as declared ...
daysDecl == << <<"m", "o", "n">>, <<"t", "u", "e">>, <<"w", "e", "d">>,
               <<"t", "h", "u">>, <<"f", "r", "i">>, <<"s", "a", "t">>,
               <<"s", "u", "n">> >>

monthsDecl == << <<"j", "a", "n">>, <<"f", "e", "b">>, <<"m", "a", "r">>,
                 <<"a", "p", "r">>, <<"m", "a", "y">>, <<"j", "u", "n">>,
                 <<"j", "u", "l">>, <<"a", "u", "g">>, <<"s", "e", "p">>,
                 <<"o", "c", "t">>, <<"n", "o", "v">>, <<"d", "e", "c">> >>

\* the table of days without the sort of init()
daysUnsorted == daysDecl

\* ... and as init() leaves them
days == SortStrings(daysDecl)

months == SortStrings(monthsDecl)

\* ------------------------------------------------------------ time values
\* A time.Time is [days, secs, nsec, loc, off]: the instant as days since
\* 1970-01-01 UTC and the second of that day, the nanosecond, and the
\* location ("UTC", "Fixed" with its offset in seconds east, or "Local").

SecondsPerDay == 86400

NanosPerSecond == 1000000000

\* days from 1970-01-01 to the civil date y-m-d (proleptic Gregorian)
DaysFromCivil(y, m, d) ==
    LET y1 == IF m <= 2 THEN y - 1 ELSE y
        era == y1 \div 400
        yoe == y1 - era * 400
        doy == ((153 * (IF m > 2 THEN m - 3 ELSE m + 9) + 2) \div 5) + d - 1
        doe == yoe * 365 + (yoe \div 4) - (yoe \div 100) + doy
    IN  era * 146097 + doe - 719468

\* the civil year of the day number z
YearOfDays(z) ==
    LET z1 == z + 719468
        era == z1 \div 146097
        doe == z1 - era * 146097
        yoe == (doe - (doe \div 1460) + (doe \div 36524) - (doe \div 146096)) \div 365
        doy == doe - (365 * yoe + (yoe \div 4) - (yoe \div 100))
        mp == (5 * doy + 2) \div 153
        m == IF mp < 10 THEN mp + 3 ELSE mp - 9
    IN  yoe + era * 400 + (IF m <= 2 THEN 1 ELSE 0)

\* time.Time{}: January 1, year 1, 00:00:00 UTC
ZeroTime == [days |-> DaysFromCivil(1, 1, 1), secs |-> 0, nsec |-> 0,
             loc |-> "UTC", off |-> 0]

IsZero(t) == t.days = ZeroTime.days /\ t.secs = 0 /\ t.nsec = 0

\* time.Date(y, mon, d, h, mi, s, ns, loc), which normalises its arguments
Date(y, mon, d, h, mi, s, ns, loc, off) ==
    LET m0 == mon - 1
        y2 == y + (m0 \div 12)
        m2 == (m0 % 12) + 1
        total == h * 3600 + mi * 60 + s + (ns \div NanosPerSecond) - off
    IN  [days |-> DaysFromCivil(y2, m2, 1) + (d - 1) + (total \div SecondsPerDay),
         secs |-> total % SecondsPerDay,
         nsec |-> ns % NanosPerSecond,
         loc |-> loc, off |-> off]

\* time.Unix(sec, 0)
Unix(sec) ==
    [days |-> sec \div SecondsPerDay, secs |-> sec % SecondsPerDay, nsec |-> 0,
     loc |-> "Local", off |-> 0]

\* t.YearDay(), in t's location
YearDay(t) ==
    LET local == t.days + ((t.secs + t.off) \div SecondsPerDay)
    IN  local - DaysFromCivil(YearOfDays(local), 1, 1) + 1

\* t.AddDate(0, 0, n)
AddDays(t, n) == [t EXCEPT !.days = t.days + n]

\* ------------------------------------------------------- time accumulator

ZeroWhen == [Year |-> 0, Mon |-> 0, Day |-> 0, Hour |-> 0, Min |-> 0, Sec |-> 0,
             Frac |-> 0, Zone |-> 0, YearDay |-> 0, Unix |-> 0]

\* when.Time()
Time(w) ==
    IF w.Unix # 0 THEN Unix(w.Unix)
    ELSE LET y == IF w.Year = 0 THEN 1 ELSE w.Year
             mo == IF w.Mon = 0 THEN 1 ELSE w.Mon
             d == IF w.Day = 0 THEN 1 ELSE w.Day
             t == Date(y, mo, d, w.Hour, w.Min, w.Sec, w.Frac,
                       IF w.Zone # 0 THEN "Fixed" ELSE "UTC", w.Zone)
         IN  IF w.YearDay > 0 THEN AddDays(t, w.YearDay - YearDay(t) + 1) ELSE t

\* the result of a whenfunc
WhenRes(err, w, c) == [err |-> err, w |-> w, c |-> c]

\* parseYear .. parseTimestamp: parseInt into one field of the accumulator
parseWhenInt(w, field, n, line, c) ==
    With(parseInt(w[field], n, line, c, isDigit), LAMBDA pi :
        WhenRes(pi.err, [w EXCEPT ![field] = pi.val], pi.c))

parseDayStr(w, line, c) ==
    With(parseString(line, c, 3, isLetter), LAMBDA ps :
    With(ToLower(ps.str), LAMBDA day :
    With(SearchStrings(days, day), LAMBDA x :
        IF ps.err # "none" THEN WhenRes(ps.err, w, ps.c)
        ELSE IF x >= Len(days) \/ days[x + 1] # day THEN WhenRes("pattern", w, ps.c)
        ELSE WhenRes("none", w, ps.c))))

parseMonthStr(w, line, c) ==
    With(parseString(line, c, 3, isLetter), LAMBDA ps :
    With(ToLower(ps.str), LAMBDA month :
    With(SearchStrings(months, month), LAMBDA x :
        IF ps.err # "none" THEN WhenRes(ps.err, w, ps.c)
        ELSE IF x >= Len(months) \/ months[x + 1] # month THEN WhenRes("pattern", w, ps.c)
        ELSE WhenRes("none", [w EXCEPT !.Mon = x + 1], ps.c))))

parseZone(w, line, c) ==
    With(ReadRune(line, c), LAMBDA rr :
    With(IF rr.r = "-" THEN (w.Zone + 1) * (0 - 1) ELSE w.Zone + 1, LAMBDA z1 :
    With(parseInt(0, 2, line, rr.c, isDigit), LAMBDA hh :
    With(z1 * (hh.val * 60 * 60), LAMBDA z2 :
    With(peek(line, hh.c), LAMBDA p1 :
    With(IF p1.r = ":" THEN ReadRune(line, p1.c).c ELSE p1.c, LAMBDA c1 :
    With(peek(line, c1), LAMBDA p2 :
    With(parseInt(hh.val, 2, line, p2.c, isDigit), LAMBDA mm :
        IF rr.r = "Z" THEN WhenRes("none", w, rr.c)
        ELSE IF rr.r \in {"+", "-"}
        THEN IF hh.err # "none" THEN WhenRes(hh.err, [w EXCEPT !.Zone = z1], hh.c)
             ELSE IF p2.r \in isDigit
             THEN IF mm.err = "none"
                  THEN WhenRes("none", [w EXCEPT !.Zone = z2 + mm.val * 60], mm.c)
                  ELSE WhenRes(mm.err, [w EXCEPT !.Zone = z2], mm.c)
             ELSE WhenRes("none", [w EXCEPT !.Zone = z2], p2.c)
        ELSE WhenRes("pattern", w, rr.c)))))))))

parseFraction(w, line, c) ==
    With(parseInt(w.Frac, 0, line, c, isDigit), LAMBDA pi :
    With(IF pi.val < 1000 THEN pi.val * 1000 * 1000
             ELSE IF pi.val < 1000 * 1000 THEN pi.val * 1000
             ELSE pi.val, LAMBDA f :
        IF pi.err # "none" THEN WhenRes(pi.err, [w EXCEPT !.Frac = pi.val], pi.c)
        ELSE WhenRes("none", [w EXCEPT !.Frac = f], pi.c)))

parseWhenLiteral(str, w, line, c) ==
    With(matchLiteral(str, line, c), LAMBDA m :
        WhenRes(m.err, w, m.c))

\* A compiled whenfunc is a record [op, ...]; mergeWhen(wfs) is the
\* sequence wfs, run in order until the first error.
RECURSIVE mergeWhen(_, _, _, _)
runWhen(fn, w, line, c) ==
    CASE fn.op = "year" -> parseWhenInt(w, "Year", 4, line, c)
      [] fn.op = "month" -> parseWhenInt(w, "Mon", 2, line, c)
      [] fn.op = "day" -> parseWhenInt(w, "Day", 2, line, c)
      [] fn.op = "doy" -> parseWhenInt(w, "YearDay", 3, line, c)
      [] fn.op = "hour" -> parseWhenInt(w, "Hour", 2, line, c)
      [] fn.op = "minute" -> parseWhenInt(w, "Min", 2, line, c)
      [] fn.op = "second" -> parseWhenInt(w, "Sec", 2, line, c)
      [] fn.op = "timestamp" -> parseWhenInt(w, "Unix", 0, line, c)
      [] fn.op = "daystr" -> parseDayStr(w, line, c)
      [] fn.op = "monthstr" -> parseMonthStr(w, line, c)
      [] fn.op = "fraction" -> parseFraction(w, line, c)
      [] fn.op = "zone" -> parseZone(w, line, c)
      [] fn.op = "literal" -> parseWhenLiteral(fn.str, w, line, c)
      [] fn.op = "merge" -> mergeWhen(fn.fns, w, line, c)

mergeWhen(wfs, w, line, c) ==
    IF wfs = <<>> THEN WhenRes("none", w, c)
    ELSE With(runWhen(Head(wfs), w, line, c), LAMBDA r1 :
             IF r1.err # "none" THEN r1
             ELSE mergeWhen(Tail(wfs), r1.w, line, r1.c))

\* ------------------------------------------------------- time sub-compiler

isoPattern == <<"%", "y", "-", "%", "m", "-", "%", "d", " ",
                "%", "H", ":", "%", "M", ":", "%", "S", "%", "Z">>

\* the rfc template with a space for its "T"
rfcSpaced == <<"%", "y", "-", "%", "m", "-", "%", "d", " ",
               "%", "H", ":", "%", "M", ":", "%", "S", "%", "Z">>

rfcPattern == <<"%", "y", "-", "%", "m", "-", "%", "d", "T",
                "%", "H", ":", "%", "M", ":", "%", "S", "%", "Z">>

\* the result of a compiler: an error kind ("none" when it compiled) and the chain
Compiled(err, fns) == [err |-> err, fns |-> fns]

Literal(buf) == [op |-> "literal", str |-> buf]

\* the chain with the pending literal run flushed into it
Flush(fns, buf) == IF buf # <<>> THEN Append(fns, Literal(buf)) ELSE fns

timeOps == [y |-> "year", m |-> "month", d |-> "day", j |-> "doy", a |-> "daystr",
            b |-> "monthstr", s |-> "timestamp", H |-> "hour", M |-> "minute",
            S |-> "second", f |-> "fraction", Z |-> "zone"]

\* the template that each shorthand specifier compiles
timeLong == [I |-> isoPattern, R |-> isoPattern]

RECURSIVE parseTimeLoop(_, _, _)
\* parseTimePattern(pattern)
parseTimePattern(pattern) ==
    parseTimeLoop(IF pattern = <<>> THEN isoPattern ELSE pattern, <<>>, <<>>)

\* the loop of parseTimePattern over the rest str of the template; the
\* runes up to the next "%" are written to buf in one go
parseTimeLoop(str, buf, wfs) ==
    IF str = <<>> THEN Compiled("none", Flush(wfs, buf))
    ELSE IF Head(str) # "%"
    THEN parseTimeLoop(SubSeq(str, RunBefore(str, "%") + 1, Len(str)),
                       buf \o SubSeq(str, 1, RunBefore(str, "%")), wfs)
    ELSE LET r == IF Len(str) >= 2 THEN str[2] ELSE NUL
             rest == IF Len(str) >= 2 THEN SubSeq(str, 3, Len(str)) ELSE <<>>
             sub == parseTimePattern(timeLong[r])
         IN  IF r = "%" THEN parseTimeLoop(rest, Append(buf, r), wfs)
             ELSE IF r \in DOMAIN timeLong
             THEN IF sub.err # "none" THEN Compiled(sub.err, <<>>)
                  ELSE parseTimeLoop(rest, <<>>,
                           Append(Flush(wfs, buf), [op |-> "merge", fns |-> sub.fns]))
             ELSE IF r \in DOMAIN timeOps
             THEN parseTimeLoop(rest, <<>>, Append(Flush(wfs, buf), [op |-> timeOps[r]]))
             ELSE Compiled("syntax", <<>>)

\* ------------------------------------------------------- host accumulator

ip4len == 4

ip6len == 8

ZeroHost == [Name |-> <<>>, Addr |-> <<>>, Mask |-> 0, Port |-> 0]

\* host.String()
HostString(h) ==
    IF h.Name # <<>> THEN h.Name ELSE h.Addr \o <<":">> \o Itoa(h.Port)

HexDigits == <<"0", "1", "2", "3", "4", "5", "6", "7", "8", "9",
               "a", "b", "c", "d", "e", "f">>

\* strconv.FormatInt(n, 16)
RECURSIVE FormatHex(_)
FormatHex(n) ==
    IF n < 16 THEN <<HexDigits[n + 1]>>
    ELSE FormatHex(n \div 16) \o <<HexDigits[(n % 16) + 1]>>

HostRes(err, h, c) == [err |-> err, h |-> h, c |-> c]

\* the closing bracket of parseIPv4 and parseIPv6
closeQuote(quote, buf, h, line, c) ==
    With(peek(line, c), LAMBDA k :
        IF quote # "["
        THEN HostRes("none", [h EXCEPT !.Addr = buf], k.c)
        ELSE IF k.r # "]" THEN HostRes("pattern", h, k.c)
        ELSE HostRes("none", [h EXCEPT !.Addr = buf], ReadRune(line, k.c).c))

\* the octet loop of parseIPv4 from octet i on
RECURSIVE ipv4Loop(_, _, _, _, _, _)
ipv4Loop(i, quote, buf, h, line, c) ==
    IF i >= ip4len THEN closeQuote(quote, buf, h, line, c)
    ELSE With(parseInt(0, 0, line, c, isDigit), LAMBDA pi :
         With(buf \o Itoa(pi.val), LAMBDA b1 :
         With(peek(line, pi.c), LAMBDA k :
             IF pi.err # "none" THEN HostRes(pi.err, h, pi.c)
             ELSE IF pi.val < 0 \/ pi.val > 255 THEN HostRes("pattern", h, pi.c)
             ELSE IF i < ip4len - 1
             THEN IF k.r # "." THEN HostRes("pattern", h, k.c)
                  ELSE ipv4Loop(i + 1, quote, Append(b1, "."), h, line, ReadRune(line, k.c).c)
             ELSE ipv4Loop(i + 1, quote, b1, h, line, pi.c))))

parseIPv4(h, line, c) ==
    With(peek(line, c), LAMBDA quote :
        ipv4Loop(0, quote.r, <<>>, h, line,
                 IF quote.r = "[" THEN ReadRune(line, quote.c).c ELSE quote.c))

\* the group loop of parseIPv6 from group i on
RECURSIVE ipv6Loop(_, _, _, _, _, _)
ipv6Loop(i, quote, buf, h, line, c) ==
    IF i >= ip6len THEN closeQuote(quote, buf, h, line, c)
    ELSE With(parseInt(0, 0, line, c, isHexa), LAMBDA pi :
         With(buf \o FormatHex(pi.val), LAMBDA b1 :
         With(peek(line, pi.c), LAMBDA k :
         With(ReadRune(line, k.c).c, LAMBDA c1 :
         With(peek(line, c1), LAMBDA k2 :
             IF pi.err # "none" THEN HostRes(pi.err, h, pi.c)
             ELSE IF pi.val < 0 \/ pi.val > 65535 THEN HostRes("pattern", h, pi.c)
             ELSE IF i < ip6len - 1
             THEN IF k.r # ":" THEN closeQuote(quote, b1, h, line, k.c)
                  ELSE IF k2.r = ":"
                  THEN ipv6Loop(i + 1, quote, b1 \o <<":", ":">>, h, line,
                                ReadRune(line, k2.c).c)
                  ELSE ipv6Loop(i + 1, quote, Append(b1, ":"), h, line, k2.c)
             ELSE ipv6Loop(i + 1, quote, b1, h, line, pi.c))))))

parseIPv6(h, line, c) ==
    With(peek(line, c), LAMBDA quote :
        ipv6Loop(0, quote.r, <<>>, h, line,
                 IF quote.r = "[" THEN ReadRune(line, quote.c).c ELSE quote.c))

parseMask(h, line, c) ==
    With(parseInt(h.Mask, 0, line, c, isDigit), LAMBDA pi :
    With([h EXCEPT !.Mask = pi.val], LAMBDA h1 :
        IF pi.err # "none" THEN HostRes(pi.err, h1, pi.c)
        ELSE IF pi.val < 0 \/ pi.val > 32 THEN HostRes("pattern", h1, pi.c)
        ELSE HostRes("none", h1, pi.c)))

parsePort(h, line, c) ==
    With(parseInt(h.Port, 0, line, c, isDigit), LAMBDA pi :
    With([h EXCEPT !.Port = pi.val], LAMBDA h1 :
        IF pi.err # "none" THEN HostRes(pi.err, h1, pi.c)
        ELSE IF pi.val < 0 \/ pi.val > 65535 THEN HostRes("pattern", h1, pi.c)
        ELSE HostRes("none", h1, pi.c)))

parseHostname(h, line, c) ==
    With(parseString(line, c, 0, isAlpha), LAMBDA ps :
        HostRes("none", [h EXCEPT !.Name = ps.str], ps.c))

\* the label loop of parseFQDN
RECURSIVE fqdnLoop(_, _, _, _)
fqdnLoop(buf, h, line, c) ==
    With(parseString(line, c, 0, isAlpha), LAMBDA ps :
    With(buf \o ps.str, LAMBDA b1 :
    With(peek(line, ps.c), LAMBDA k :
        IF k.r # "." THEN HostRes("none", [h EXCEPT !.Name = b1], k.c)
        ELSE fqdnLoop(Append(b1, "."), h, line, ReadRune(line, k.c).c))))

parseFQDN(h, line, c) == fqdnLoop(<<>>, h, line, c)

parseHostLiteral(str, h, line, c) ==
    With(matchLiteral(str, line, c), LAMBDA m :
        HostRes(m.err, h, m.c))

\* A compiled hostfunc is a record [op, ...]; mergeHost(hfs) is the sequence hfs.
RECURSIVE mergeHost(_, _, _, _)
runHost(fn, h, line, c) ==
    CASE fn.op = "ipv4" -> parseIPv4(h, line, c)
      [] fn.op = "ipv6" -> parseIPv6(h, line, c)
      [] fn.op = "port" -> parsePort(h, line, c)
      [] fn.op = "fqdn" -> parseFQDN(h, line, c)
      [] fn.op = "hostname" -> parseHostname(h, line, c)
      [] fn.op = "mask" -> parseMask(h, line, c)
      [] fn.op = "literal" -> parseHostLiteral(fn.str, h, line, c)
      [] fn.op = "merge" -> mergeHost(fn.fns, h, line, c)

mergeHost(hfs, h, line, c) ==
    IF hfs = <<>> THEN HostRes("none", h, c)
    ELSE With(runHost(Head(hfs), h, line, c), LAMBDA r1 :
             IF r1.err # "none" THEN r1
             ELSE mergeHost(Tail(hfs), r1.h, line, r1.c))

\* ------------------------------------------------------- host sub-compiler

ip4long == <<"%", "4", ":", "%", "p">>

ip6long == <<"%", "6", ":", "%", "p">>

fqdnlong == <<"%", "f", ":", "%", "p">>

hostOps == [p |-> "port", f |-> "fqdn", h |-> "hostname", m |-> "mask"]

hostLong == [F |-> ip4long, S |-> ip6long, Q |-> fqdnlong]

RECURSIVE parseHostLoop(_, _, _)
\* parseHostPattern(pattern)
parseHostPattern(pattern) == parseHostLoop(pattern, <<>>, <<>>)

\* the loop of parseHostPattern over the rest str of the template; the
\* runes up to the next "%" are written to buf in one go
parseHostLoop(str, buf, hfs) ==
    IF str = <<>> THEN Compiled("none", Flush(hfs, buf))
    ELSE IF Head(str) # "%"
    THEN parseHostLoop(SubSeq(str, RunBefore(str, "%") + 1, Len(str)),
                       buf \o SubSeq(str, 1, RunBefore(str, "%")), hfs)
    ELSE LET r == IF Len(str) >= 2 THEN str[2] ELSE NUL
             rest == IF Len(str) >= 2 THEN SubSeq(str, 3, Len(str)) ELSE <<>>
             op == IF r = "4" THEN "ipv4" ELSE IF r = "6" THEN "ipv6" ELSE hostOps[r]
             sub == parseHostPattern(hostLong[r])
         IN  IF r = "%" THEN parseHostLoop(rest, Append(buf, r), hfs)
             ELSE IF r \in DOMAIN hostLong
             THEN IF sub.err # "none" THEN Compiled(sub.err, <<>>)
                  ELSE parseHostLoop(rest, <<>>,
                           Append(Flush(hfs, buf), [op |-> "merge", fns |-> sub.fns]))
             ELSE IF r \in {"4", "6"} \cup DOMAIN hostOps
             THEN parseHostLoop(rest, <<>>, Append(Flush(hfs, buf), [op |-> op]))
             ELSE Compiled("syntax", <<>>)

\* ------------------------------------------------------------------ entries

ZeroEntry == [Line |-> <<>>, Pid |-> 0, Process |-> <<>>, User |-> <<>>,
              Group |-> <<>>, Level |-> <<>>, Message |-> <<>>, Words |-> <<>>,
              Host |-> <<>>, When |-> ZeroTime]

\* strings.TrimSpace
RECURSIVE TrimSpace(_)
TrimSpace(s) ==
    IF s = <<>> THEN s
    ELSE IF Head(s) \in isBlank THEN TrimSpace(Tail(s))
    ELSE IF s[Len(s)] \in isBlank THEN TrimSpace(SubSeq(s, 1, Len(s) - 1))
    ELSE s

\* The result of a parsefunc: the error ("none", "pattern" for ErrPattern,
\* "EOF" for io.EOF, "syntax" and "range" for strconv's errors, "hang" when
\* the call never returns), the entry, the cursor, and the log tr of what the
\* alternations did (AltEvent).
Res(err, e, c, tr) == [err |-> err, e |-> e, c |-> c, tr |-> tr]

parseLiteral(str, e, line, c, tr) ==
    With(matchLiteral(str, line, c), LAMBDA m :
        Res(m.err, e, m.c, tr))

\* the closure of parseTime
parseTime(fns, e, line, c, tr) ==
    With(mergeWhen(fns, ZeroWhen, line, c), LAMBDA r :
        IF r.err = "none" THEN Res("none", [e EXCEPT !.When = Time(r.w)], r.c, tr)
        ELSE Res(r.err, e, r.c, tr))

\* the closure of parseHost
parseHost(fns, e, line, c, tr) ==
    With(mergeHost(fns, ZeroHost, line, c), LAMBDA r :
        IF r.err # "none" THEN Res(r.err, e, r.c, tr)
        ELSE Res("none", [e EXCEPT !.Host = HostString(r.h)], r.c, tr))

\* the closure of parseLevel
parseLevel(levels, e, line, c, tr) ==
    With(parseString(line, c, 0, isLetter), LAMBDA ps :
    With(SearchStrings(levels, ps.str), LAMBDA x :
    With([e EXCEPT !.Level = ps.str], LAMBDA e1 :
        IF Len(levels) > 0 /\ (x >= Len(levels) \/ levels[x + 1] # ps.str)
        THEN Res("pattern", e1, ps.c, tr)
        ELSE Res("none", e1, ps.c, tr))))

parsePID(e, line, c, tr) ==
    With(parseInt(e.Pid, 0, line, c, isDigit), LAMBDA pi :
        Res(pi.err, [e EXCEPT !.Pid = pi.val], pi.c, tr))

parseMessage(e, line, c, tr) ==
    With(parseString(line, c, 0, Runes \ isEOL), LAMBDA ps :
        Res("none", [e EXCEPT !.Message = ps.str], ps.c, tr))

\* the rune loop of parseWord: it reads up to the delimiter, which is the
\* closing quote or, without a quote, a blank; the end of the line ends it
\* too, as a mismatch when a quote is open
wordLoop(quote, line, c) ==
    LET stop == IF quote \in isQuote THEN isEOL \cup {quote} ELSE isBlank \cup isEOL
        k == RunWhile(Rest(line, c), Runes \ stop)
        buf == SubSeq(Rest(line, c), 1, k)
        rr == ReadRune(line, After(c, k))
    IN  IF quote \in isQuote /\ rr.r \in isEOL
        THEN [err |-> "pattern", c |-> rr.c, buf |-> buf]
        ELSE [err |-> "none", c |-> rr.c, buf |-> buf]

parseWord(e, line, c, tr) ==
    With(peek(line, c), LAMBDA quote :
    With(wordLoop(quote.r, line,
                  IF quote.r \in isQuote THEN ReadRune(line, quote.c).c ELSE quote.c),
         LAMBDA lp :
    With(IF quote.r \notin isQuote THEN UnreadRune(lp.c) ELSE lp.c, LAMBDA c2 :
    With(TrimSpace(lp.buf), LAMBDA str :
        IF lp.err # "none" THEN Res(lp.err, e, lp.c, tr)
        ELSE IF str # <<>> THEN Res("none", [e EXCEPT !.Words = Append(e.Words, str)], c2, tr)
        ELSE Res("none", e, c2, tr)))))

parseUser(e, line, c, tr) ==
    With(parseString(line, c, 0, isAlpha), LAMBDA ps :
        Res("none", [e EXCEPT !.User = ps.str], ps.c, tr))

parseGroup(e, line, c, tr) ==
    With(parseString(line, c, 0, isAlpha), LAMBDA ps :
        Res("none", [e EXCEPT !.Group = ps.str], ps.c, tr))

parseProcess(e, line, c, tr) ==
    With(parseString(line, c, 0, isAlpha), LAMBDA ps :
        Res("none", [e EXCEPT !.Process = ps.str], ps.c, tr))

\* the closure of parseDiscard(next); it never returns when the line holds
\* no rune next (and next is not the end of the pattern)
parseDiscard(next, e, line, c, tr) ==
    With(parseString(line, c, 0, Runes \ {next}), LAMBDA ps :
        Res(IF ps.err = "hang" THEN "hang" ELSE "none", e, ps.c, tr))

parseBlank(e, line, c, tr) ==
    With(parseString(line, c, 0, isBlank), LAMBDA ps :
        Res("none", e, ps.c, tr))

\* What an alternation did, for the log. kind "branch": alternative number
\* branch of the alternation id (the pattern offset of its parenthesis),
\* which began at offset seek, was started at offset at, stopped at offset
\* stop and returned err. kind "return": the alternation returned err with
\* the cursor at offset at, branch being the number of the last alternative
\* it ran.
AltEvent(kind, id, seek, at, stop, branch, err) ==
    [kind |-> kind, id |-> id, seek |-> seek, at |-> at, stop |-> stop,
     branch |-> branch, err |-> err]

\* a Seek that leaves the cursor where the failed alternative stopped
noRewind(c, seek) == c

\* r.Seek(seek, io.SeekStart) after a failed alternative
rewind(c, seek) == Seek(c, seek)

\* what the closure of parseAlt returns once every alternative has failed:
\* err then holds the result of the last Seek, which is nil
altExhausted == "none"

RECURSIVE mergeParse(_, _, _, _, _)
RECURSIVE altLoop(_, _, _, _, _, _, _)

\* the closure of parseAlt(pfs): seek is r.Seek(0, io.SeekCurrent)
parseAlt(fn, e, line, c, tr) ==
    altLoop(fn, 1, c.i, e, line, Seek(c, c.i), tr)

\* the loop of that closure from alternative number k on
altLoop(fn, k, seek, e, line, c, tr) ==
    IF k > Len(fn.alts)
    THEN Res(altExhausted, e, c,
             Append(tr, AltEvent("return", fn.id, seek, c.i, c.i, k - 1, altExhausted)))
    ELSE With(mergeParse(fn.alts[k], e, line, c, tr), LAMBDA r :
         With(Append(r.tr, AltEvent("branch", fn.id, seek, c.i, r.c.i, k, r.err)), LAMBDA tr1 :
             IF r.err = "hang" THEN r
             ELSE IF r.err = "none"
             THEN Res("none", r.e, r.c,
                      Append(tr1, AltEvent("return", fn.id, seek, r.c.i, r.c.i, k, "none")))
             ELSE altLoop(fn, k + 1, seek, r.e, line, rewind(r.c, seek), tr1)))

\* one compiled parsefunc
runParse(fn, e, line, c, tr) ==
    CASE fn.op = "literal" -> parseLiteral(fn.str, e, line, c, tr)
      [] fn.op = "time" -> parseTime(fn.fns, e, line, c, tr)
      [] fn.op = "host" -> parseHost(fn.fns, e, line, c, tr)
      [] fn.op = "level" -> parseLevel(fn.levels, e, line, c, tr)
      [] fn.op = "pid" -> parsePID(e, line, c, tr)
      [] fn.op = "message" -> parseMessage(e, line, c, tr)
      [] fn.op = "word" -> parseWord(e, line, c, tr)
      [] fn.op = "user" -> parseUser(e, line, c, tr)
      [] fn.op = "group" -> parseGroup(e, line, c, tr)
      [] fn.op = "process" -> parseProcess(e, line, c, tr)
      [] fn.op = "discard" -> parseDiscard(fn.next, e, line, c, tr)
      [] fn.op = "blank" -> parseBlank(e, line, c, tr)
      [] fn.op = "alt" -> parseAlt(fn, e, line, c, tr)

\* the closure of mergeParse(pfs)
mergeParse(pfs, e, line, c, tr) ==
    IF pfs = <<>> THEN Res("none", e, c, tr)
    ELSE With(runParse(Head(pfs), e, line, c, tr), LAMBDA r1 :
             IF r1.err # "none" THEN r1
             ELSE mergeParse(Tail(pfs), r1.e, line, r1.c, r1.tr))

\* ------------------------------------------------- entry pattern compiler
\* The pattern is read through a bytes.Reader; pos is its read offset.

\* the longest specifier argument parseArgument accepts
MaxArgument == 64

\* the loop of parseArgument with the length test one rune early
argumentLoopShort(pattern, pos) ==
    LET rest == SubSeq(pattern, pos + 1, Len(pattern))
        n == RunBefore(rest, ")")
    IN  IF n >= MaxArgument
        THEN [err |-> "syntax", arg |-> <<>>, pos |-> pos + MaxArgument]
        ELSE IF n = Len(rest) THEN [err |-> "syntax", arg |-> <<>>, pos |-> Len(pattern)]
        ELSE [err |-> "none", arg |-> SubSeq(rest, 1, n), pos |-> pos + n + 1]

\* the loop of parseArgument after the opening parenthesis, at offset pos:
\* n runes stand before the first ")" of the rest. The loop returns "too
\* long" on writing rune 65, "missing )" when the pattern ends first, and
\* otherwise the n runes at the ")".
argumentLoop(pattern, pos) ==
    LET rest == SubSeq(pattern, pos + 1, Len(pattern))
        n == RunBefore(rest, ")")
    IN  IF n > MaxArgument
        THEN [err |-> "syntax", arg |-> <<>>, pos |-> pos + MaxArgument + 1]
        ELSE IF n = Len(rest) THEN [err |-> "syntax", arg |-> <<>>, pos |-> Len(pattern)]
        ELSE [err |-> "none", arg |-> SubSeq(rest, 1, n), pos |-> pos + n + 1]

\* parseArgument(str, option, what); option is never empty in its callers.
\* Without "(" the rune is pushed back with UnreadRune, whose error (there
\* is nothing to push back at the end of the pattern) is returned as is.
parseArgument(pattern, pos, option) ==
    LET rr == ReadRune(pattern, Cursor(pos))
    IN  IF rr.r # "("
        THEN IF rr.ok THEN [err |-> "none", arg |-> option, pos |-> UnreadRune(rr.c).i]
             ELSE [err |-> "unread", arg |-> option, pos |-> rr.c.i]
        ELSE argumentLoop(pattern, rr.c.i)

\* strings.Split(s, ",")
RECURSIVE SplitComma(_)
SplitComma(s) ==
    IF "," \notin Range(s) THEN <<s>>
    ELSE <<SubSeq(s, 1, RunBefore(s, ","))>>
             \o SplitComma(SubSeq(s, RunBefore(s, ",") + 2, Len(s)))

\* the list of levels left in the order of the argument
levelListUnsorted(level) ==
    LET stripped == SelectSeq(level, LAMBDA r : r \notin isBlank)
    IN  IF stripped # <<>> THEN SplitComma(stripped) ELSE <<>>

\* the sorted list of levels that parseLevel(level) keeps in its closure
levelList(level) ==
    LET stripped == SelectSeq(level, LAMBDA r : r \notin isBlank)
    IN  IF stripped # <<>> THEN SortStrings(SplitComma(stripped)) ELSE <<>>

\* the result of parseSpecifier: error, compiled parsefunc, new read offset
Spec1(err, fn, pos) == [err |-> err, fn |-> fn, pos |-> pos]

NoFn == [op |-> "nil"]

simpleOps == [b |-> "blank", n |-> "process", p |-> "pid", u |-> "user",
              g |-> "group", m |-> "message", w |-> "word"]

\* parseSpecifier(str, r), the pattern reader being at offset pos
parseSpecifier(pattern, pos, r) ==
    LET targ == parseArgument(pattern, pos, rfcPattern)
        harg == parseArgument(pattern, pos, <<"%", "f">>)
        larg == parseArgument(pattern, pos, <<"-">>)
        tc == parseTimePattern(targ.arg)
        hc == parseHostPattern(harg.arg)
    IN  CASE r = "t" ->
               IF targ.err # "none" THEN Spec1(targ.err, NoFn, targ.pos)
               ELSE IF tc.err # "none" THEN Spec1(tc.err, NoFn, targ.pos)
               ELSE Spec1("none", [op |-> "time", fns |-> tc.fns], targ.pos)
          [] r = "h" ->
               IF harg.err # "none" THEN Spec1(harg.err, NoFn, harg.pos)
               ELSE IF hc.err # "none" THEN Spec1(hc.err, NoFn, harg.pos)
               ELSE Spec1("none", [op |-> "host", fns |-> hc.fns], harg.pos)
          [] r = "l" ->
               IF larg.err # "none" THEN Spec1(larg.err, NoFn, larg.pos)
               ELSE Spec1("none",
                          [op |-> "level",
                           levels |-> levelList(IF larg.arg = <<"-">> THEN <<>> ELSE larg.arg)],
                          larg.pos)
          [] r \in DOMAIN simpleOps -> Spec1("none", [op |-> simpleOps[r]], pos)
          [] r = "*" ->
               Spec1("none", [op |-> "discard", next |-> peek(pattern, Cursor(pos)).r], pos)
          [] OTHER -> Spec1("syntax", NoFn, pos)

\* --------------------------------------------------------- checked inputs
\* The patterns handed to NewReader and, for each, the lines its source may
\* hold.

PatSyslog == <<"%", "t", " ", "%", "n", "[", "%", "p", "]", ":", " ", "%",
             "m">>

LineSyslog == <<"2", "0", "2", "3", "-", "0", "5", "-", "0", "1", " ", "1",
              "0", ":", "2", "2", ":", "3", "1", " ", "s", "s", "h", "d",
              "[", "1", "2", "3", "4", "]", ":", " ", "A", "c", "c", "e",
              "p", "t", "e", "d", " ", "p", "a", "s", "s", "w", "o", "r",
              "d">>

LineSyslogRFC == <<"2", "0", "2", "3", "-", "0", "5", "-", "0", "1", "T",
                 "1", "0", ":", "2", "2", ":", "3", "1", "Z", " ", "s", "s",
                 "h", "d", "[", "1", "2", "3", "4", "]", ":", " ", "A", "c",
                 "c", "e", "p", "t", "e", "d", " ", "p", "a", "s", "s", "w",
                 "o", "r", "d">>

\* "%l(" arg ")" and "%t(" arg ")"
LevelWith(arg) == <<"%", "l", "(">> \o arg \o <<")">>

TimeWith(arg) == <<"%", "t", "(">> \o arg \o <<")">>

Scenario(p, ls) == [pattern |-> p, lines |-> ls]

Scenarios == {
    Scenario(PatSyslog, {LineSyslog, LineSyslogRFC}),
    \* %w ;
    Scenario(<<"%", "w", " ", ";">>,
             {<<"a">>, <<"b", " ", ";">>, <<>>}),
    \* [%p]
    Scenario(<<"[", "%", "p", "]">>,
             {<<"[", "1", "2", "]">>, <<"[", "1", "2">>, <<"[", "7", ")">>, <<"[", "0", "]">>}),
    \* %p
    Scenario(<<"%", "p">>,
             {<<"1", "2">>, <<"x">>}),
    \* %t(%y-%m)!
    Scenario(<<"%", "t", "(", "%", "y", "-", "%", "m", ")", "!">>,
             {<<"2", "0", "2", "3", "-", "0", "5", "!">>, <<"2", "0", "2", "3", "-", "0">>, <<"2", "0">>}),
    \* @(ab|a)c
    Scenario(<<"@", "(", "a", "b", "|", "a", ")", "c">>,
             {<<"a", "b", "c">>, <<"a", "c">>, <<"x", "c">>}),
    \* @(ab|a)
    Scenario(<<"@", "(", "a", "b", "|", "a", ")">>,
             {<<"a", "b">>, <<"a">>, <<"x">>}),
    \* @(@(ab|a)x|a@(y|z))
    Scenario(<<"@", "(", "@", "(", "a", "b", "|", "a", ")", "x", "|", "a", "@", "(", "y", "|", "z", ")", ")">>,
             {<<"a", "x">>, <<"a", "y">>, <<"a", "z">>, <<"a", "q">>}),
    \* @(%p;|%w!)
    Scenario(<<"@", "(", "%", "p", ";", "|", "%", "w", "!", ")">>,
             {<<"1", "2", ";">>, <<"a", "b", " ", "!">>, <<"1", "2", "!">>}),
    \* %n=@(no|%w)
    Scenario(<<"%", "n", "=", "@", "(", "n", "o", "|", "%", "w", ")">>,
             {<<"p", "=", "n", "o">>, <<"p", "=", "y", "e", "s">>, <<"p">>}),
    \* @(a
    Scenario(<<"@", "(", "a">>,
             {}),
    \* @(a|b
    Scenario(<<"@", "(", "a", "|", "b">>,
             {}),
    \* x@(
    Scenario(<<"x", "@", "(">>,
             {}),
    \* @(%n
    Scenario(<<"@", "(", "%", "n">>,
             {}),
    \* @a
    Scenario(<<"@", "a">>,
             {}),
    \* (the empty pattern)
    Scenario(<<>>,
             {}),
    \* %x
    Scenario(<<"%", "x">>,
             {}),
    \* a%q
    Scenario(<<"a", "%", "q">>,
             {}),
    \* %
    Scenario(<<"%">>,
             {}),
    \* %l(ab
    Scenario(<<"%", "l", "(", "a", "b">>,
             {}),
    \* %t(%y
    Scenario(<<"%", "t", "(", "%", "y">>,
             {}),
    \* %h(%4
    Scenario(<<"%", "h", "(", "%", "4">>,
             {}),
    \* @()
    Scenario(<<"@", "(", ")">>,
             {<<"a">>, <<"b">>}),
    \* a@()b
    Scenario(<<"a", "@", "(", ")", "b">>,
             {<<"a", "b">>, <<"b", "a">>}),
    \* @(|a)
    Scenario(<<"@", "(", "|", "a", ")">>,
             {<<"a">>, <<"b">>}),
    \* %*:%m
    Scenario(<<"%", "*", ":", "%", "m">>,
             {<<"a", ":", "b">>, <<"a", "b">>}),
    \* %b%u:%g %l(INFO, WARNING)
    Scenario(<<"%", "b", "%", "u", ":", "%", "g", " ", "%", "l", "(", "I", "N", "F", "O", ",", " ", "W", "A", "R", "N", "I", "N", "G", ")">>,
             {<<" ", " ", "b", "o", "b", ":", "a", "d", "m", " ", "I", "N", "F", "O">>, <<"b", "o", "b", ":", "a", "d", "m", " ", "D", "E", "B", "U", "G">>, <<"b", "o", "b", ":", "a", "d", "m", " ">>}),
    \* %h(%4:%p);
    Scenario(<<"%", "h", "(", "%", "4", ":", "%", "p", ")", ";">>,
             {<<"1", "0", ".", "0", ".", "0", ".", "1", ":", "2", "2", ";">>, <<"1", "0", ".", "0", ".", "0", ".", "2", "5", "6", ":", "2", "2", ";">>, <<"1", "0", ".", "0", ".", "1", ":", "2", "2", ";">>}),
    \* a\|b%%
    Scenario(<<"a", "\\", "|", "b", "%", "%">>,
             {<<"a", "|", "b", "%">>, <<"a", "|", "b">>}),
    \* \q
    Scenario(<<"\\", "q">>,
             {}),
    \* \\\@\*\(\)\|
    Scenario(<<"\\", "\\", "\\", "@", "\\", "*", "\\", "(", "\\", ")", "\\", "|">>,
             {<<"\\", "@", "*", "(", ")", "|">>, <<"\\", "@">>}),
    \* x\
    Scenario(<<"x", "\\">>,
             {}),
    \* \%
    Scenario(<<"\\", "%">>,
             {}),
    \* %l(INFO,WARNING)
    Scenario(<<"%", "l", "(", "I", "N", "F", "O", ",", "W", "A", "R", "N", "I", "N", "G", ")">>,
             {<<"I", "N", "F", "O">>, <<"W", "A", "R", "N", "I", "N", "G">>, <<"D", "E", "B", "U", "G">>, <<"i", "n", "f", "o">>, <<"I", "N", "F", "O", "S">>, <<"7", " ", "I", "N", "F", "O">>}),
    \* %l(WARNING, INFO)
    Scenario(<<"%", "l", "(", "W", "A", "R", "N", "I", "N", "G", ",", " ", "I", "N", "F", "O", ")">>,
             {<<"I", "N", "F", "O">>, <<"W", "A", "R", "N", "I", "N", "G", " ", "x">>, <<"E", "R", "R", "O", "R">>}),
    \* %l()
    Scenario(<<"%", "l", "(", ")">>,
             {<<"D", "E", "B", "U", "G">>, <<"7">>}),
    \* %l(-)
    Scenario(<<"%", "l", "(", "-", ")">>,
             {<<"D", "E", "B", "U", "G">>, <<"i", "n", "f", "o", ";">>}),
    \* %t
    Scenario(<<"%", "t">>,
             {}),
    \* %h
    Scenario(<<"%", "h">>,
             {}),
    \* %l
    Scenario(<<"%", "l">>,
             {}),
    \* a%l
    Scenario(<<"a", "%", "l">>,
             {}),
    \* %t;
    Scenario(<<"%", "t", ";">>,
             {<<"2", "0", "2", "3", "-", "0", "5", "-", "0", "1", "T", "1", "0", ":", "2", "2", ":", "3", "1", "Z", ";">>, <<"x">>}),
    \* %h;
    Scenario(<<"%", "h", ";">>,
             {<<"a", ".", "b", ";">>, <<"x">>}),
    \* %l;
    Scenario(<<"%", "l", ";">>,
             {<<"I", "N", "F", "O", ";">>, <<"x">>}),
    \* @(%n;|%u!)
    Scenario(<<"@", "(", "%", "n", ";", "|", "%", "u", "!", ")">>,
             {<<"a", "b", "!">>, <<"a", "b", ";">>, <<"a", "b">>}),
    \* @(%w ;|%w !)
    Scenario(<<"@", "(", "%", "w", " ", ";", "|", "%", "w", " ", "!", ")">>,
             {<<"a", "b", " ", "!">>, <<"a", "b", " ", ";">>}),
    \* [%t
    Scenario(<<"[", "%", "t">>,
             {}),
    \* %t(%q)
    Scenario(<<"%", "t", "(", "%", "q", ")">>,
             {}),
    \* %h(%y)
    Scenario(<<"%", "h", "(", "%", "y", ")">>,
             {}),
    \* %l( 64 runes ), %l( 65 runes ), %t( 64 runes ), %t( 65 runes )
    Scenario(LevelWith(Rep("a", MaxArgument)), {<<"a", "a">>, <<"b">>}),
    Scenario(LevelWith(Rep("a", MaxArgument + 1)), {}),
    Scenario(TimeWith(Rep("-", MaxArgument)), {<<"-", "-">>, <<"-">>}),
    Scenario(TimeWith(Rep("-", MaxArgument + 1)), {})
}

\* ---------------------------------------------------------------- bounds

\* the longest source, in lines
MaxLines == 2

\* the number of Read and ReadAll calls on one reader
MaxCalls == 3

\* the number of reads at the end of the pattern that the compile loop is
\* followed through
MaxSpin == 2

\* the sources of at most MaxLines lines drawn from the set ls
RECURSIVE SeqsUpTo(_, _)
SeqsUpTo(ls, n) ==
    IF n = 0 THEN {<<>>}
    ELSE LET shorter == SeqsUpTo(ls, n - 1)
         IN  shorter \cup {Append(s, l) : s \in {x \in shorter : Len(x) = n - 1}, l \in ls}

PoolOf(p) == UNION {s.lines : s \in {x \in Scenarios : x.pattern = p}}

\* ------------------------------------------------------------------ state

VARIABLES
    pattern,    \* the pattern handed to NewReader
    filter,     \* the filter handed to NewReader
    phase,      \* "compiling", "failed" (NewReader returned an error),
                \* "ready" (it returned a Reader), "hung" (a Read never returns)
    cpos,       \* the read offset of the pattern's bytes.Reader
    stack,      \* the parsePatternUntil activations, innermost last:
                \* [pfs, buf] of the activation, and alts and id of the
                \* parseAlternative that called it (id 0: parsePattern)
    cerr,       \* the error of NewReader
    parse,      \* Reader.parse, the compiled chain
    keep,       \* Reader.keep: "all", or "nil" for no filter function
    source,     \* the lines that Reader.inner delivers
    srcErr,     \* whether the source ends with a read error rather than EOF
    next,       \* the number of lines Reader.inner has delivered
    rerr,       \* Reader.err
    out,        \* the entries that Read and ReadAll have yielded, in order
    ret,        \* what the last Read returned: [e, err]
    log,        \* the lines the last call ran through the chain: [line, err, tr]
    calls,      \* the number of calls made on the reader
    wpattern,   \* the pattern handed to NewWriter
    wphase,     \* "none" (no Writer asked for), "new" (NewWriter is called),
                \* "failed" (it returned an error), "ready" (it returned a Writer)
    werr,       \* the error of NewWriter
    print,      \* Writer.print, the compiled chain
    inner,      \* what Writer.inner has received, as one sequence of runes
    wlog,       \* the Write calls made: [e, parts, line], parts being what
                \* each printfunc of the chain wrote
    scanIn,     \* the call made on a scanner: [fn, arg, line, old]
    scanOut     \* what that call returned

vars == <<pattern, filter, phase, cpos, stack, cerr, parse, keep, source, srcErr,
          next, rerr, out, ret, log, calls,
          wpattern, wphase, werr, print, inner, wlog, scanIn, scanOut>>

readerVars == <<pattern, filter, phase, cpos, stack, cerr, parse, keep, source, srcErr,
                next, rerr, out, ret, log, calls>>

writerVars == <<wpattern, wphase, werr, print, inner, wlog>>

scanVars == <<scanIn, scanOut>>

compileVars == <<cpos, stack, cerr, parse, keep, source, srcErr>>

Frame(pfs, buf, alts, id) == [pfs |-> pfs, buf |-> buf, alts |-> alts, id |-> id]

Filters == {<<>>, <<"x">>}

\* no Writer is asked for
NoWriter ==
    /\ wpattern = <<>>
    /\ wphase = "none"
    /\ werr = "none"
    /\ print = <<>>
    /\ inner = <<>>
    /\ wlog = <<>>

\* no scanner is called on its own
NoScan ==
    /\ scanIn = [fn |-> "none"]
    /\ scanOut = [done |-> FALSE]

Init ==
    /\ NoWriter
    /\ NoScan
    /\ pattern \in {s.pattern : s \in Scenarios}
    /\ filter \in Filters
    /\ phase = "compiling"
    /\ cpos = 0
    /\ stack = <<Frame(<<>>, <<>>, <<>>, 0)>>
    /\ cerr = "none"
    /\ parse = <<>>
    /\ keep = "nil"
    /\ source = <<>>
    /\ srcErr = FALSE
    /\ next = 0
    /\ rerr = "none"
    /\ out = <<>>
    /\ ret = [e |-> ZeroEntry, err |-> "none"]
    /\ log = <<>>
    /\ calls = 0

\* ---------------------------------------------------------------- NewReader

\* parseFilter(str): the accept-all function, or no function at all
parseFilter(str) == IF str = <<>> THEN "all" ELSE "nil"

\* the runes that may follow a backslash
escapable == {"\\", "@", "*", "(", ")", "|"}

\* until(r) of the activation at depth d: parsePattern's for d = 1,
\* parseAlternative's for the others
until(d, r) == IF d = 1 THEN r = NUL ELSE r \in {"|", ")"}

\* NewReader returns err
Fail(err) ==
    /\ phase' = "failed"
    /\ cerr' = err
    /\ UNCHANGED <<cpos, stack, parse, keep, source, srcErr>>

\* parsePattern returned the chain fn: NewReader compiles the filter and
\* returns the Reader, on a source nothing has read from yet
Succeed(fn) ==
    /\ phase' = "ready"
    /\ parse' = fn
    /\ keep' = parseFilter(filter)
    /\ source' \in SeqsUpTo(PoolOf(pattern), MaxLines)
    /\ srcErr' \in BOOLEAN
    /\ stack' = <<>>
    /\ UNCHANGED <<cpos, cerr>>

\* the loop goes on with the innermost activation replaced by f, at offset pos
Continue(f, pos) ==
    /\ stack' = [stack EXCEPT ![Len(stack)] = f]
    /\ cpos' = pos
    /\ UNCHANGED <<phase, cerr, parse, keep, source, srcErr>>

\* parseAlt(pfs) at the closing parenthesis of the alternation id
compileAlt(pfs, id) ==
    IF Len(pfs) = 0 THEN [err |-> "syntax", fn |-> NoFn]
    ELSE [err |-> "none", fn |-> [op |-> "alt", alts |-> pfs, id |-> id]]

\* until(last) held in an activation called by parseAlternative, which now
\* has the alternatives alts: it goes on to the next one after "|", and
\* after ")" hands parseAlt's closure to the activation below
EndAlternative(last, alts, pos) ==
    LET d == Len(stack)
        f == stack[d]
        up == stack[d - 1]
        alt == compileAlt(alts, f.id)
    IN  IF last # ")"
        THEN Continue(Frame(<<>>, <<>>, alts, f.id), pos)
        ELSE IF alt.err # "none" THEN Fail(alt.err)
        ELSE /\ stack' = [SubSeq(stack, 1, d - 1) EXCEPT
                             ![d - 1] = [up EXCEPT !.pfs = Append(up.pfs, alt.fn)]]
             /\ cpos' = pos
             /\ UNCHANGED <<phase, cerr, parse, keep, source, srcErr>>

\* One iteration of the loop of parsePatternUntil in the innermost
\* activation (the first one after the empty-pattern test of parsePattern),
\* with the calls it makes to parseSpecifier and parseAlternative.
CompileStep ==
    /\ phase = "compiling"
    /\ LET d == Len(stack)
           f == stack[d]
           rr == ReadRune(pattern, Cursor(cpos))
           last == rr.r
           r2 == ReadRune(pattern, rr.c)
           sp == parseSpecifier(pattern, r2.c.i, r2.r)
           fn == Flush(f.pfs, f.buf)
       IN  IF pattern = <<>> THEN Fail("syntax")
           ELSE IF until(d, last)
           THEN IF d = 1 THEN Succeed(fn)
                ELSE EndAlternative(last, Append(f.alts, fn), rr.c.i)
           ELSE IF last = "%"
           THEN IF r2.r = "%" THEN Continue([f EXCEPT !.buf = Append(f.buf, r2.r)], r2.c.i)
                ELSE IF sp.err # "none" THEN Fail(sp.err)
                ELSE Continue([f EXCEPT !.pfs = Append(fn, sp.fn), !.buf = <<>>], sp.pos)
           ELSE IF last = "@"
           THEN IF r2.r # "(" THEN Fail("syntax")
                ELSE /\ stack' = Append(stack, Frame(<<>>, <<>>, <<>>, r2.c.i))
                     /\ cpos' = r2.c.i
                     /\ UNCHANGED <<phase, cerr, parse, keep, source, srcErr>>
           ELSE IF last = "\\"
           THEN IF r2.r \in escapable
                THEN Continue([f EXCEPT !.buf = Append(f.buf, r2.r)], r2.c.i)
                ELSE Fail("escape")
           ELSE /\ IF rr.ok THEN TRUE
                   ELSE Cardinality({k \in DOMAIN f.buf : f.buf[k] = NUL}) < MaxSpin
                /\ Continue([f EXCEPT !.buf = Append(f.buf, last)], rr.c.i)
    /\ UNCHANGED <<pattern, filter, next, rerr, out, ret, log, calls>>
    /\ UNCHANGED <<writerVars, scanVars>>

\* --------------------------------------------------------------- Reader.Read

\* errors.Is(err, ErrPattern)
isMismatch(err) == err = "pattern"

\* r.err = err
recordErr(err) == err

\* an acceptance that leaves e.Line alone
setNoLine(e, text) == e

\* e.Line = r.inner.Text()
setLine(e, text) == [e EXCEPT !.Line = text]

\* r.keep == nil || r.keep(e)
kept(e) == keep = "nil" \/ keep = "all"

\* what r.inner.Scan() and r.inner.Err() give once the source is used up
scanEnd == IF srcErr THEN "io" ELSE "EOF"

ReadRes(e, err, n, lg, hang) == [e |-> e, err |-> err, next |-> n, log |-> lg, hang |-> hang]

\* the loop of Read: e is the entry declared before the loop, n the number
\* of lines delivered so far, lg the lines already run through the chain
RECURSIVE readLoop(_, _, _)
readLoop(e, n, lg) ==
    IF n >= Len(source) THEN ReadRes(e, recordErr(scanEnd), n, lg, FALSE)
    ELSE With(source[n + 1], LAMBDA line :
         With(mergeParse(parse, e, line, Cursor(0), <<>>), LAMBDA r :
         With(Append(lg, [line |-> line, err |-> r.err, tr |-> r.tr]), LAMBDA lg1 :
             IF Len(line) = 0 THEN readLoop(e, n + 1, lg)
             ELSE IF r.err = "hang" THEN ReadRes(r.e, "none", n + 1, lg1, TRUE)
             ELSE IF r.err # "none"
             THEN IF isMismatch(r.err) THEN readLoop(r.e, n + 1, lg1)
                  ELSE ReadRes(r.e, recordErr(r.err), n + 1, lg1, FALSE)
             ELSE IF kept(r.e) THEN ReadRes(setLine(r.e, line), "none", n + 1, lg1, FALSE)
             ELSE readLoop(r.e, n + 1, lg1))))

\* a Read that does not look at r.err first
readAgain(n, err) == readLoop(ZeroEntry, n, <<>>)

\* Read() of a reader that has delivered n lines and whose err is err
read(n, err) ==
    IF err # "none" THEN ReadRes(ZeroEntry, err, n, <<>>, FALSE)
    ELSE readLoop(ZeroEntry, n, <<>>)

Read ==
    /\ phase = "ready"
    /\ calls < MaxCalls
    /\ \E r \in {read(next, rerr)} :
           /\ phase' = IF r.hang THEN "hung" ELSE phase
           /\ next' = r.next
           /\ rerr' = r.err
           /\ log' = r.log
           /\ ret' = IF r.hang THEN ret ELSE [e |-> r.e, err |-> r.err]
           /\ out' = IF r.hang \/ r.err # "none" THEN out ELSE Append(out, r.e)
    /\ calls' = calls + 1
    /\ UNCHANGED <<pattern, filter, compileVars, writerVars, scanVars>>

\* the loop of ReadAll: es are the entries collected so far
RECURSIVE readAllLoop(_, _, _, _)
readAllLoop(n, err, es, lg) ==
    With(read(n, err), LAMBDA r :
        IF r.hang \/ r.err # "none"
        THEN [r EXCEPT !.log = lg \o r.log] @@ [es |-> es]
        ELSE readAllLoop(r.next, r.err, Append(es, r.e), lg \o r.log))

ReadAll ==
    /\ phase = "ready"
    /\ calls < MaxCalls
    /\ \E r \in {readAllLoop(next, rerr, <<>>, <<>>)} :
           /\ phase' = IF r.hang THEN "hung" ELSE phase
           /\ next' = r.next
           /\ rerr' = r.err
           /\ log' = r.log
           /\ ret' = IF r.hang THEN ret ELSE [e |-> r.e, err |-> r.err]
           /\ out' = out \o r.es
    /\ calls' = calls + 1
    /\ UNCHANGED <<pattern, filter, compileVars, writerVars, scanVars>>

Next == CompileStep \/ Read \/ ReadAll

Spec == Init /\ [][Next]_vars

\* ------------------------------------------------------------------ Writer
\* Writer.buffer is empty before and after every Write, io.Copy moving all
\* of it to Writer.inner, which is taken to accept whatever it is given.

\* the text written for an empty field
empty == <<"N", "/", "A">>

\* the text of n on at least k digits
RECURSIVE Pad(_, _)
Pad(n, k) == IF Len(Itoa(n)) >= k THEN Itoa(n) ELSE <<"0">> \o Pad(n, k - 1)

\* the civil date [y, m, d] of the day number z
CivilOfDays(z) ==
    LET y == YearOfDays(z)
        doy == z - DaysFromCivil(y, 1, 1)
        m == CHOOSE k \in 1..12 :
                 /\ DaysFromCivil(y, k, 1) <= z
                 /\ (k = 12 \/ z < DaysFromCivil(y, k + 1, 1))
    IN  [y |-> y, m |-> m, d |-> z - DaysFromCivil(y, m, 1) + 1]

\* t.Format(time.RFC3339): "2006-01-02T15:04:05Z07:00" in t's location
FormatRFC3339(t) ==
    LET local == t.secs + t.off
        date == CivilOfDays(t.days + (local \div SecondsPerDay))
        sod == local % SecondsPerDay
        az == IF t.off < 0 THEN 0 - t.off ELSE t.off
    IN  Pad(date.y, 4) \o <<"-">> \o Pad(date.m, 2) \o <<"-">> \o Pad(date.d, 2)
            \o <<"T">> \o Pad(sod \div 3600, 2) \o <<":">> \o Pad((sod % 3600) \div 60, 2)
            \o <<":">> \o Pad(sod % 60, 2)
            \o (IF t.off = 0 THEN <<"Z">>
                ELSE <<IF t.off < 0 THEN "-" ELSE "+">> \o Pad(az \div 3600, 2)
                         \o <<":">> \o Pad((az % 3600) \div 60, 2))

\* printString without the placeholder
printStringRaw(str) == str

\* printString(str, w): what it writes
printString(str) == IF str = <<>> THEN empty ELSE str

printWord(i, e) ==
    printString(IF i >= 0 /\ i < Len(e.Words) THEN e.Words[i + 1] ELSE <<>>)

printTime(e) == printString(IF ~IsZero(e.When) THEN FormatRFC3339(e.When) ELSE <<>>)

printPID(e) == printString(IF e.Pid > 0 THEN Itoa(e.Pid) ELSE <<>>)

\* the field that each of the other printfuncs hands to printString
printOps == [n |-> "Process", u |-> "User", g |-> "Group", h |-> "Host",
             l |-> "Level", m |-> "Message"]

\* one compiled printfunc: what it writes for e
runPrint(fn, e) ==
    CASE fn.op = "literal" -> printString(fn.str)
      [] fn.op = "word" -> printWord(fn.i, e)
      [] fn.op = "time" -> printTime(e)
      [] fn.op = "pid" -> printPID(e)
      [] fn.op = "line" -> printString(e.Line)
      [] fn.op = "field" -> printString(e[fn.field])

\* what each printfunc of the chain writes for e, in order
printParts(pfs, e) == [k \in DOMAIN pfs |-> runPrint(pfs[k], e)]

RECURSIVE Concat(_)
Concat(ss) == IF ss = <<>> THEN <<>> ELSE Head(ss) \o Concat(Tail(ss))

\* the closure of mergePrint(pfs): what it writes for e
mergePrint(pfs, e) == Concat(printParts(pfs, e))

\* the loop of parsePrint with its reader at offset pos; the runes up to
\* the next "%" are written to buf in one go, and buf is what the loop
\* leaves behind when the pattern is used up
RECURSIVE printLoop(_, _, _, _)
printLoop(pat, pos, buf, pfs) ==
    IF pos >= Len(pat) THEN Compiled("none", pfs)
    ELSE IF pat[pos + 1] # "%"
    THEN printLoop(pat, pos + RunBefore(SubSeq(pat, pos + 1, Len(pat)), "%"),
                   buf \o SubSeq(pat, pos + 1, pos + RunBefore(SubSeq(pat, pos + 1, Len(pat)), "%")),
                   pfs)
    ELSE LET r2 == ReadRune(pat, Cursor(pos + 1))
             r == r2.r
             fns == Flush(pfs, buf)
             pi == parseInt(0, 0, pat, UnreadRune(r2.c), isDigit)
         IN  IF r = "%" THEN printLoop(pat, r2.c.i, Append(buf, r), pfs)
             ELSE IF r = "t" THEN printLoop(pat, r2.c.i, <<>>, Append(fns, [op |-> "time"]))
             ELSE IF r = "p" THEN printLoop(pat, r2.c.i, <<>>, Append(fns, [op |-> "pid"]))
             ELSE IF r = "#" THEN printLoop(pat, r2.c.i, <<>>, Append(fns, [op |-> "line"]))
             ELSE IF r \in DOMAIN printOps
             THEN printLoop(pat, r2.c.i, <<>>,
                            Append(fns, [op |-> "field", field |-> printOps[r]]))
             ELSE IF r \notin isDigit THEN Compiled("pattern", <<>>)
             ELSE IF pi.err # "none" THEN Compiled(pi.err, <<>>)
             ELSE printLoop(pat, pi.c.i, <<>>, Append(fns, [op |-> "word", i |-> pi.val]))

\* parsePrint(pattern)
parsePrint(pat) ==
    IF pat = <<>> THEN Compiled("syntax", <<>>) ELSE printLoop(pat, 0, <<>>, <<>>)

\* the patterns handed to NewWriter
WPatterns == {
    \* %t
    <<"%", "t">>,
    \* %n
    <<"%", "n">>,
    \* %p
    <<"%", "p">>,
    \* %u
    <<"%", "u">>,
    \* %g
    <<"%", "g">>,
    \* %h
    <<"%", "h">>,
    \* %l
    <<"%", "l">>,
    \* %m
    <<"%", "m">>,
    \* %#
    <<"%", "#">>,
    \* %0%m
    <<"%", "0", "%", "m">>,
    \* %1%m
    <<"%", "1", "%", "m">>,
    \* %7%m
    <<"%", "7", "%", "m">>,
    \* %01 %n
    <<"%", "0", "1", " ", "%", "n">>,
    \* [%t] %n[%p]: %m
    <<"[", "%", "t", "]", " ", "%", "n", "[", "%", "p", "]", ":", " ", "%", "m">>,
    \* %m!
    <<"%", "m", "!">>,
    \* abc
    <<"a", "b", "c">>,
    \* 100%% %l
    <<"1", "0", "0", "%", "%", " ", "%", "l">>,
    \* %l%%
    <<"%", "l", "%", "%">>,
    \* %n %12
    <<"%", "n", " ", "%", "1", "2">>,
    \* (the empty pattern)
    <<>>,
    \* %x
    <<"%", "x">>,
    \* %
    <<"%">>,
    \* %1
    <<"%", "1">>,
    \* %m%
    <<"%", "m", "%">>,
    \* %n%
    <<"%", "n", "%">>
}

TimeA == Date(2023, 5, 1, 10, 22, 31, 0, "UTC", 0)

TimeB == Date(1999, 12, 31, 23, 59, 59, 0, "Fixed", 0 - 18000)

TimeC == Date(2024, 2, 29, 0, 30, 0, 0, "Fixed", 5400)

EntryA ==
    [Line |-> <<"s", "s", "h", "d", "[", "1", "2", "3", "4", "]", ":", " ", "o", "k">>, Pid |-> 1234, Process |-> <<"s", "s", "h", "d">>, User |-> <<"r", "o", "o", "t">>, Group |-> <<"a", "d", "m">>,
     Level |-> <<"I", "N", "F", "O">>, Message |-> <<"o", "k">>, Words |-> <<<<"a">>, <<"b", "c">>>>, Host |-> <<"1", "0", ".", "0", ".", "0", ".", "1", ":", "2", "2">>,
     When |-> TimeA]

EntryB ==
    [ZeroEntry EXCEPT !.Pid = 0 - 1, !.Words = <<<<"w">>>>, !.Message = <<"5", "0", "%", " ", "d", "o", "n", "e">>, !.When = TimeB]

EntryC ==
    [ZeroEntry EXCEPT !.Pid = 7, !.Words = <<<<>>, <<"x">>>>, !.Level = <<"w", "a", "r", "n">>, !.When = TimeC]

\* the records handed to Write
WEntries == {ZeroEntry, EntryA, EntryB, EntryC}

\* the number of Write calls on one writer
MaxWrites == 2

\* no Reader is asked for
NoReader ==
    /\ pattern = <<>>
    /\ filter = <<>>
    /\ phase = "none"
    /\ cpos = 0
    /\ stack = <<>>
    /\ cerr = "none"
    /\ parse = <<>>
    /\ keep = "nil"
    /\ source = <<>>
    /\ srcErr = FALSE
    /\ next = 0
    /\ rerr = "none"
    /\ out = <<>>
    /\ ret = [e |-> ZeroEntry, err |-> "none"]
    /\ log = <<>>
    /\ calls = 0

InitWriter ==
    /\ NoReader
    /\ NoScan
    /\ wpattern \in WPatterns
    /\ wphase = "new"
    /\ werr = "none"
    /\ print = <<>>
    /\ inner = <<>>
    /\ wlog = <<>>

\* NewWriter(ws, pattern)
NewWriter ==
    /\ wphase = "new"
    /\ \E c \in {parsePrint(wpattern)} :
           /\ wphase' = IF c.err # "none" THEN "failed" ELSE "ready"
           /\ werr' = c.err
           /\ print' = c.fns
    /\ UNCHANGED <<wpattern, inner, wlog, readerVars, scanVars>>

\* w.Write(e): the chain writes to the buffer, then the newline, and
\* io.Copy hands the buffer to inner
Write ==
    /\ wphase = "ready"
    /\ Len(wlog) < MaxWrites
    /\ \E e \in WEntries :
       \E line \in {mergePrint(print, e) \o <<"\n">>} :
           /\ inner' = inner \o line
           /\ wlog' = Append(wlog, [e |-> e, parts |-> printParts(print, e), line |-> line])
    /\ UNCHANGED <<wpattern, wphase, werr, print, readerVars, scanVars>>

NextWriter == NewWriter \/ Write

SpecWriter == InitWriter /\ [][NextWriter]_vars

\* ------------------------------------------------------- scanners alone
\* One call of a scanner on a line of its own, the cursor at its start:
\* parseInt of width 0, the closure of parseHost(arg), and the chain of
\* parseTimePattern(arg) with when.Time() of what it gathered.

\* the longest line handed to parseInt, in runes
MaxIntLen == 3

IntRunes == {"0", "4", "9", "x"}

\* a run of digits above the largest int
LongDigits == Rep("9", 20) \o <<";">>

IntLines == UNION {[1..n -> IntRunes] : n \in 0..MaxIntLen} \cup {LongDigits}

\* the values of the target before the call
IntTargets == {0, 5}

Octets == {<<"0">>, <<"2", "5">>, <<"2", "5", "6">>, <<>>}

\* the three dots of an address, one of them missing at most
Dots == {d \in [1..3 -> {<<".">>, <<>>}] : Cardinality({k \in 1..3 : d[k] = <<>>}) <= 1}

\* the lines handed to %4: four octets, with or without a dot and each
\* bracket, at the end of the line or before a ";"
IPv4Lines ==
    {open \o o[1] \o d[1] \o o[2] \o d[2] \o o[3] \o d[3] \o o[4] \o close \o tail :
        open \in {<<>>, <<"[">>}, close \in {<<>>, <<"]">>}, tail \in {<<>>, <<";">>},
        o \in [1..4 -> Octets], d \in Dots}

\* groups of hexadecimal digits, with a letter and without
Groups == {<<"1">>, <<"9">>, <<"1", "0">>, <<"f", "f">>, <<"A">>, <<"0", "1">>, <<"f", "e", "8", "0">>}

\* the lines handed to %6: one group or two, bare or in brackets, before a
\* ";", and whole addresses
IPv6Lines ==
    {g \o <<";">> : g \in Groups}
    \cup {g[1] \o <<":">> \o g[2] \o <<";">> : g \in [1..2 -> Groups]}
    \cup {<<"[">> \o g[1] \o <<":">> \o g[2] \o <<"]">> : g \in [1..2 -> Groups]}
    \cup {<<"1", ":", "2", ":", "3", ":", "4", ":", "5", ":", "6", ":", "7", ":", "8", ";">>, <<"f", "e", "8", "0", ":", ":", "1", ";">>, <<":", ":", "1", ";">>, <<"[", "2", "0", "0", "1", ":", "d", "b", "8", ":", ":", "1", "]">>, <<"1">>, <<"f", "f">>, <<"1", ":", "2", ":", "3", ":", "4", ":", "5", ":", "6", ":", "7", ":", "8", ":", "9", ";">>, <<"1", "2", "3", "4", "5", ";">>, <<"[", "1", ":", "2", ";">>, <<"x", ";">>, <<>>}

HostCalls ==
    {[fn |-> "host", arg |-> <<"%", "4">>, line |-> l, old |-> 0] : l \in IPv4Lines}
    \cup {[fn |-> "host", arg |-> a, line |-> l, old |-> 0] :
              a \in {<<"%", "4", ":", "%", "p">>, <<"%", "F">>},
              l \in {<<"1", "9", "2", ".", "1", "6", "8", ".", "1", ".", "1", "0", ":", "2", "2">>, <<"1", "9", "2", ".", "1", "6", "8", ".", "1", ".", "1", "0", ":", "2", "2", ";">>, <<"1", "9", "2", ".", "1", "6", "8", ".", "1", ".", "1", "0", ";">>}}
    \cup {[fn |-> "host", arg |-> <<"%", "6">>, line |-> l, old |-> 0] : l \in IPv6Lines}

\* three letters and others, for %a and %b
NameLines == {<<"m", "o", "n">>, <<"M", "o", "n">>, <<"M", "O", "N">>, <<"m", "O", "n">>, <<"t", "u", "e">>, <<"T", "u", "e">>, <<"T", "U", "E">>, <<"t", "U", "e">>, <<"w", "e", "d">>, <<"W", "e", "d">>, <<"W", "E", "D">>, <<"w", "E", "d">>, <<"t", "h", "u">>, <<"T", "h", "u">>, <<"T", "H", "U">>, <<"t", "H", "u">>, <<"f", "r", "i">>, <<"F", "r", "i">>, <<"F", "R", "I">>, <<"f", "R", "i">>, <<"s", "a", "t">>, <<"S", "a", "t">>, <<"S", "A", "T">>, <<"s", "A", "t">>, <<"s", "u", "n">>, <<"S", "u", "n">>, <<"S", "U", "N">>, <<"s", "U", "n">>, <<"j", "a", "n">>, <<"J", "a", "n">>, <<"J", "A", "N">>, <<"j", "A", "n">>, <<"f", "e", "b">>, <<"F", "e", "b">>, <<"F", "E", "B">>, <<"f", "E", "b">>, <<"m", "a", "r">>, <<"M", "a", "r">>, <<"M", "A", "R">>, <<"m", "A", "r">>, <<"a", "p", "r">>, <<"A", "p", "r">>, <<"A", "P", "R">>, <<"a", "P", "r">>, <<"m", "a", "y">>, <<"M", "a", "y">>, <<"M", "A", "Y">>, <<"m", "A", "y">>, <<"j", "u", "n">>, <<"J", "u", "n">>, <<"J", "U", "N">>, <<"j", "U", "n">>, <<"j", "u", "l">>, <<"J", "u", "l">>, <<"J", "U", "L">>, <<"j", "U", "l">>, <<"a", "u", "g">>, <<"A", "u", "g">>, <<"A", "U", "G">>, <<"a", "U", "g">>, <<"s", "e", "p">>, <<"S", "e", "p">>, <<"S", "E", "P">>, <<"s", "E", "p">>, <<"o", "c", "t">>, <<"O", "c", "t">>, <<"O", "C", "T">>, <<"o", "C", "t">>, <<"n", "o", "v">>, <<"N", "o", "v">>, <<"N", "O", "V">>, <<"n", "O", "v">>, <<"d", "e", "c">>, <<"D", "e", "c">>, <<"D", "E", "C">>, <<"d", "E", "c">>, <<"x", "y", "z">>, <<"f", "o", "o">>, <<"m", "a", "i">>, <<"L", "u", "n">>, <<"d", "e", "z">>, <<"F", "E", "V">>, <<"m", "o">>, <<"m">>, <<>>, <<"m", "1", "n">>, <<"j", "a", " ">>, <<"m", "o", "n", "d", "a", "y">>, <<"J", "u", "n", "e", " ", "5">>, <<"S", "e", "p", "t">>, <<"7", "u", "e">>, <<" ", "m", "o", "n">>, <<"m", "o", "n", ";">>, <<"D", "e", "c", "-", "2", "5">>}

TimestampLines == {<<"1", "6", "9", "0", "0", "0", "0", "0", "0", "0", ";">>, <<"0", ";">>, <<"2", "0", "2", "3", " ", "1", "6", "9", "0", "0", "0", "0", "0", "0", "0", ";">>, <<"2", "0", "2", "3", " ", "0", ";">>, <<"1", "6", "9", "0", "0", "0", "0", "0", "0", "0", " ", "2", "0", "2", "3", "-", "0", "5", "-", "0", "1", "T", "1", "0", ":", "2", "2", ":", "3", "1", "+", "0", "2", ":", "0", "0">>, <<"0", " ", "2", "0", "2", "3", "-", "0", "5", "-", "0", "1", "T", "1", "0", ":", "2", "2", ":", "3", "1", "Z">>, <<"0", "4", "5", " ", "1", "6", "9", "0", "0", "0", "0", "0", "0", "0", " ", "1", "0", ";">>, <<"0", "4", "5", " ", "0", " ", "1", "0", ";">>, <<"x", ";">>}

TimestampPatterns == {<<"%", "s", ";">>, <<"%", "y", " ", "%", "s", ";">>, <<"%", "s", " ", "%", "R">>, <<"%", "s", " ", "%", "y", "-", "%", "m", "-", "%", "d", "T", "%", "H", ":", "%", "M", ":", "%", "S", "%", "Z">>, <<"%", "j", " ", "%", "s", " ", "%", "H", ";">>}

DateLines == {<<"2", "0", "2", "3", "-", "0", "5", "-", "0", "1", " ", "1", "0", ":", "2", "2", ":", "3", "1", "Z">>, <<"2", "0", "2", "3", "-", "0", "5", "-", "0", "1", "T", "1", "0", ":", "2", "2", ":", "3", "1", "Z">>, <<"2", "0", "2", "3", "-", "0", "5", "-", "0", "1", " ", "1", "0", ":", "2", "2", ":", "3", "1", "+", "0", "2", ":", "0", "0">>, <<"2", "0", "2", "3", "-", "0", "5", "-", "0", "1", "T", "1", "0", ":", "2", "2", ":", "3", "1", "-", "0", "5", "3", "0">>, <<"2", "0", "2", "3", "-", "0", "5", "-", "0", "1", " ", "1", "0", ":", "2", "2", ":", "3", "1">>, <<"2", "0", "2", "3", "-", "0", "5", "-", "0", "1">>, <<"2", "0", "2", "3", "-", "5", "-", "0", "1", " ", "1", "0", ":", "2", "2", ":", "3", "1", "Z">>, <<"2", "0", "2", "3", "-", "0", "5", "-", "0", "1", " ", "1", "0", ":", "2", "2", ":", "3", "1", "Z", " ", "t", "a", "i", "l">>, <<"2", "0", "2", "3", "-", "0", "5", "-", "0", "1", "T", "1", "0", ":", "2", "2", ":", "3", "1", "+", "0", "2", " ", "t", "a", "i", "l">>, <<>>}

TwoDigits == {<<"0", "0">>, <<"0", "2">>, <<"0", "5">>, <<"1", "2">>, <<"3", "0">>}

\* "Z", and a sign, an hour, and a minute or none, with a colon or none
ZoneLines ==
    {<<s>> \o hh \o sep \o mm :
        s \in {"+", "-"}, hh \in TwoDigits, sep \in {<<>>, <<":">>}, mm \in TwoDigits \cup {<<>>}}
    \cup {<<"Z">>}

\* patterns with a day of the year, and their lines
YearDayPatterns == {<<"%", "j">>, <<"%", "y", " ", "%", "j">>, <<"%", "y", "-", "%", "m", "-", "%", "d", " ", "%", "j">>, <<"%", "j", " ", "%", "H", ":", "%", "M">>}

YearDayLines == {<<"0", "4", "5">>, <<"0", "0", "1">>, <<"3", "6", "5">>, <<"2", "0", "2", "3", " ", "0", "4", "5">>, <<"2", "0", "2", "3", " ", "0", "0", "1">>, <<"2", "0", "2", "4", " ", "3", "6", "6">>, <<"2", "0", "2", "3", " ", "3", "6", "5">>, <<"2", "0", "2", "3", "-", "0", "3", "-", "1", "0", " ", "1", "0", "0">>, <<"2", "0", "2", "4", "-", "1", "2", "-", "3", "1", " ", "0", "6", "0">>, <<"0", "4", "5", " ", "1", "0", ":", "3", "0">>, <<"0", "0", "0">>, <<"2", "0", "2", "3", " ", "0", "0", "0">>, <<"0", "4">>}

\* patterns with an element after a name, and their lines
NamePatterns == {<<"%", "b", " ", "%", "d">>, <<"%", "a", ",", " ", "%", "d">>, <<"%", "a", " ", "%", "b">>, <<"%", "b", "%", "d">>}

NameThenLines == {<<"J", "a", "n", " ", "0", "5">>, <<"M", "o", "n", ",", " ", "0", "5">>, <<"M", "o", "n", " ", "J", "a", "n">>, <<"J", "a", "n", "0", "5">>, <<"j", "a", "n", " ", "5">>, <<"J", "a", "n">>, <<"M", "o", "n">>, <<"J", "a", "n", "n", " ", "0", "5">>, <<"J", "a", " ", "0", "5">>, <<"J", "a", "n", " ", " ", "0", "5">>}

TimeCalls ==
    {[fn |-> "time", arg |-> a, line |-> l, old |-> 0] :
        a \in {<<"%", "a">>, <<"%", "b">>}, l \in NameLines}
    \cup {[fn |-> "time", arg |-> a, line |-> l, old |-> 0] :
              a \in TimestampPatterns, l \in TimestampLines}
    \cup {[fn |-> "time", arg |-> a, line |-> l, old |-> 0] :
              a \in {<<"%", "I">>, <<"%", "R">>, isoPattern, rfcPattern}, l \in DateLines}
    \cup {[fn |-> "time", arg |-> <<"%", "Z">>, line |-> l, old |-> 0] : l \in ZoneLines}
    \cup {[fn |-> "time", arg |-> a, line |-> l, old |-> 0] :
              a \in YearDayPatterns, l \in YearDayLines}
    \cup {[fn |-> "time", arg |-> a, line |-> l, old |-> 0] :
              a \in NamePatterns, l \in NameThenLines}

IntCalls == {[fn |-> "int", arg |-> <<>>, line |-> l, old |-> v] : l \in IntLines, v \in IntTargets}

InitScan ==
    /\ NoReader
    /\ NoWriter
    /\ scanIn \in IntCalls \cup HostCalls \cup TimeCalls
    /\ scanOut = [done |-> FALSE]

\* parseInt(&i, 0, r, isDigit) with *i = old
ScanInt ==
    /\ scanIn.fn = "int"
    /\ ~scanOut.done
    /\ \E r \in {parseInt(scanIn.old, 0, scanIn.line, Cursor(0), isDigit)} :
           scanOut' = [done |-> TRUE, err |-> r.err, at |-> r.c.i, val |-> r.val]
    /\ UNCHANGED <<scanIn, readerVars, writerVars>>

\* parseHost(arg) and one call of its closure on an empty record
ScanHost ==
    /\ scanIn.fn = "host"
    /\ ~scanOut.done
    /\ \E hc \in {parseHostPattern(scanIn.arg)} :
       \E r \in {parseHost(hc.fns, ZeroEntry, scanIn.line, Cursor(0), <<>>)} :
           scanOut' = [done |-> TRUE, err |-> IF hc.err # "none" THEN hc.err ELSE r.err,
                       at |-> r.c.i, host |-> r.e.Host]
    /\ UNCHANGED <<scanIn, readerVars, writerVars>>

\* the chain of parseTimePattern(arg) run on an empty accumulator
timeRun(arg, line) ==
    With(parseTimePattern(arg), LAMBDA tc :
    With(mergeWhen(tc.fns, ZeroWhen, line, Cursor(0)), LAMBDA r :
        [done |-> TRUE, err |-> IF tc.err # "none" THEN tc.err ELSE r.err,
         at |-> r.c.i, w |-> r.w, t |-> Time(r.w)]))

\* parseTime(arg): the chain it compiles, run on a line, and w.Time()
ScanTime ==
    /\ scanIn.fn = "time"
    /\ ~scanOut.done
    /\ scanOut' = timeRun(scanIn.arg, scanIn.line)
    /\ UNCHANGED <<scanIn, readerVars, writerVars>>

NextScan == ScanInt \/ ScanHost \/ ScanTime

SpecScan == InitScan /\ [][NextScan]_vars

\* ------------------------------------------------------------- properties

\* NewReader has returned a Reader
Ran == phase \in {"ready", "hung"}

\* what the compiled chain makes of line, run on an empty record
fresh(line) == mergeParse(parse, ZeroEntry, line, Cursor(0), <<>>)

accepts(line) == fresh(line).err = "none"

\* the Line fields of the records yielded so far
Yielded == [k \in DOMAIN out |-> out[k].Line]

\* a line that holds none of some rune that the pattern has as a literal
\* at its top level, and so cannot conform to the pattern
LacksLiteral(line) ==
    \E k \in DOMAIN parse :
        parse[k].op = "literal" /\ \E r \in Range(parse[k].str) : r \notin Range(line)

\* C1: a line that does not conform to the pattern is skipped: the chain
\* reports it as a mismatch, whatever the place where the line stops, so
\* that Read neither returns an error for it nor yields it, and goes on
\* with the next line.
C1_MismatchSkipped ==
    Ran => \A k \in DOMAIN log :
               LacksLiteral(log[k].line) => log[k].err = "pattern"

\* C2: once Read has returned an error, every later call returns that same
\* error, reads no further line and yields no record.
C2_StickyError ==
    [][rerr # "none" =>
          /\ rerr' = rerr
          /\ ret'.err = rerr
          /\ next' = next
          /\ out' = out]_vars

\* C2: three calls were made and none yielded a record, so the second and
\* the third were made after the error of the first, with a line still unread
C2_CalledAfterError ==
    /\ phase = "ready"
    /\ calls = MaxCalls
    /\ out = <<>>
    /\ rerr # "none"
    /\ next < Len(source)

\* C3: every line attempt starts from an empty record: each yielded record
\* is the one the chain builds from an empty record on that line alone.
C3_FreshRecord ==
    Ran => \A k \in DOMAIN out : out[k] = setLine(fresh(out[k].Line).e, out[k].Line)

\* C4: the records come in stream order, one per line read so far that is
\* not empty and that the chain accepts, each with that line as its Line;
\* a Read that returns an error returns a record whose Line is not set.
C4_StreamOrder ==
    Ran => /\ Yielded = SelectSeq(SubSeq(source, 1, next),
                                  LAMBDA l : l # <<>> /\ accepts(l))
           /\ (ret.err # "none" => ret.e.Line = <<>>)

\* C4: a record was yielded for the second line after the first one was
\* passed over
C4_SecondLineYielded ==
    /\ Ran
    /\ Len(out) = 1
    /\ next = 2
    /\ out[1].Line = source[2]
    /\ source[1] # source[2]

\* the alternatives that the alternation id ran, in the order it ran them
Branches(tr, id) == SelectSeq(tr, LAMBDA ev : ev.kind = "branch" /\ ev.id = id)

AltIds(tr) == {tr[p].id : p \in DOMAIN tr}

\* C5: an alternation runs its alternatives in declaration order, each
\* from the offset at which the alternation began, and runs the next one
\* only when the one before failed.
C5_OrderedRewind ==
    \A k \in DOMAIN log : \A id \in AltIds(log[k].tr) :
        LET bs == Branches(log[k].tr, id)
        IN  \A j \in DOMAIN bs :
                /\ bs[j].branch = j
                /\ bs[j].seek = bs[1].seek
                /\ bs[j].at = bs[j].seek
                /\ (j < Len(bs) => bs[j].err # "none")

\* C5: an alternative that read runes failed and the next one, started
\* from the offset of the alternation, succeeded
C5_SecondAfterConsumed ==
    \E k \in DOMAIN log : \E id \in AltIds(log[k].tr) :
        LET bs == Branches(log[k].tr, id)
        IN  /\ Len(bs) >= 2
            /\ bs[1].stop > bs[1].seek
            /\ bs[2].at = bs[1].seek
            /\ bs[2].err = "none"

\* C6: an alternation whose alternatives all mismatch returns the mismatch
\* with the cursor at the offset at which it began.
C6_ExhaustedMismatch ==
    \A k \in DOMAIN log : \A p \in DOMAIN log[k].tr :
        LET ev == log[k].tr[p]
            bs == Branches(log[k].tr, ev.id)
        IN  (ev.kind = "return" /\ \A j \in DOMAIN bs : bs[j].err = "pattern")
                => (ev.err = "pattern" /\ ev.at = ev.seek)

\* the record of the syslog scenario, read from line
SshdRecord(line) ==
    [ZeroEntry EXCEPT !.Line = line,
                      !.Process = <<"s", "s", "h", "d">>,
                      !.Pid = 1234,
                      !.Message = <<"A", "c", "c", "e", "p", "t", "e", "d", " ",
                                    "p", "a", "s", "s", "w", "o", "r", "d">>,
                      !.When = Date(2023, 5, 1, 10, 22, 31, 0, "UTC", 0)]

\* a Read was made on the syslog pattern with line first in the source
SyslogRead(line) ==
    /\ Ran
    /\ pattern = PatSyslog
    /\ calls >= 1
    /\ source # <<>>
    /\ source[1] = line

\* C7 as stated: the line "2023-05-01 10:22:31 sshd[1234]: Accepted password"
\* read with "%t %n[%p]: %m" yields the record with process sshd, pid 1234,
\* message "Accepted password" and time 2023-05-01T10:22:31 UTC.
C7_AsStated ==
    SyslogRead(LineSyslog) => (out # <<>> /\ out[1] = SshdRecord(LineSyslog))

\* C7: the default template of %t is "%y-%m-%dT%H:%M:%S%Z", so it is the
\* line "2023-05-01T10:22:31Z sshd[1234]: Accepted password" that yields
\* that record with "%t %n[%p]: %m"; the line with a space and no zone is
\* passed over as a mismatch.
C7_DefaultTemplate ==
    /\ SyslogRead(LineSyslogRFC) => (out # <<>> /\ out[1] = SshdRecord(LineSyslogRFC))
    /\ SyslogRead(LineSyslog) => (rerr \in {"none", scanEnd}
                                  /\ \A k \in DOMAIN out : out[k].Line # LineSyslog)

\* C7: the rfc line was read and yielded
C7_RfcLineYielded ==
    /\ SyslogRead(LineSyslogRFC)
    /\ out # <<>>
    /\ out[1].Line = LineSyslogRFC

\* C8: compilation terminates: every iteration of the compile loop reads
\* at least one more rune of the pattern or ends the compilation.
C8_CompileProgress ==
    [][phase = "compiling" => (cpos' > cpos \/ phase' # "compiling")]_vars

\* the runes that stand for themselves in a pattern
Plain == Runes \ {"%", "@", "\\", "(", ")", "|"}

\* the first k runes of the pattern are plain
PlainPrefix(k) == \A j \in 1..k : pattern[j] \in Plain

\* the letters of the entry specifiers
EntrySpecifiers == {"t", "h", "l", "*"} \cup DOMAIN simpleOps

\* a specifier that takes an argument, with its parenthesis, at offset k
ArgumentAt(k) ==
    /\ k + 2 <= Len(pattern)
    /\ pattern[k] = "%"
    /\ pattern[k + 1] \in {"t", "h", "l"}
    /\ pattern[k + 2] = "("

UnknownSpecifier ==
    \E k \in 1..(Len(pattern) - 1) :
        PlainPrefix(k - 1) /\ pattern[k] = "%" /\ pattern[k + 1] \in isLetter \ EntrySpecifiers

UnclosedArgument ==
    \E k \in DOMAIN pattern :
        PlainPrefix(k - 1) /\ ArgumentAt(k) /\ \A j \in (k + 3)..Len(pattern) : pattern[j] # ")"

LongArgument ==
    \E k \in DOMAIN pattern :
        /\ PlainPrefix(k - 1)
        /\ ArgumentAt(k)
        /\ Len(pattern) >= k + 3 + MaxArgument
        /\ \A j \in (k + 3)..(k + 3 + MaxArgument) : pattern[j] # ")"

\* C9: NewReader returns an error and no reader for the empty pattern, for
\* an unknown specifier letter, for an argument that is never closed and for
\* an argument of more than 64 runes; it accepts an argument of exactly 64.
C9_CompileErrors ==
    phase # "compiling" =>
        /\ (pattern = <<>> \/ UnknownSpecifier \/ UnclosedArgument \/ LongArgument)
               => (phase = "failed" /\ cerr # "none" /\ parse = <<>>)
        /\ pattern \in {LevelWith(Rep("a", MaxArgument)), TimeWith(Rep("-", MaxArgument))}
               => (phase # "failed" /\ cerr = "none")

\* C9: NewReader returned an error for an argument of 65 runes
C9_LongArgumentRejected ==
    /\ phase = "failed"
    /\ LongArgument
    /\ ~UnclosedArgument

\* C10: a pattern with an empty alternation "@()" does not compile:
\* NewReader returns a syntax error and no chain.
C10_EmptyAlternation ==
    (phase # "compiling" /\
     \E k \in DOMAIN pattern :
        /\ PlainPrefix(k - 1)
        /\ k + 2 <= Len(pattern)
        /\ pattern[k] = "@" /\ pattern[k + 1] = "(" /\ pattern[k + 2] = ")")
        => (phase = "failed" /\ cerr = "syntax" /\ parse = <<>>)

\* what a pattern without specifier and alternation stands for: the
\* literal it spells ("literal"), unless a backslash stands before a rune
\* that cannot be escaped or at the end ("bad"); "other" for the patterns
\* that hold a specifier or an alternation
RECURSIVE EscapeRead(_, _)
EscapeRead(s, acc) ==
    IF s = <<>> THEN [kind |-> "literal", str |-> acc]
    ELSE IF Head(s) = "\\"
    THEN IF Len(s) >= 2 /\ s[2] \in {"\\", "@", "*", "(", ")", "|"}
         THEN EscapeRead(SubSeq(s, 3, Len(s)), Append(acc, s[2]))
         ELSE [kind |-> "bad", str |-> acc]
    ELSE IF Head(s) \in {"%", "@"} THEN [kind |-> "other", str |-> acc]
    ELSE EscapeRead(Tail(s), Append(acc, Head(s)))

\* C11: a backslash before one of \ @ * ( ) | compiles to that rune as part
\* of a literal; a backslash before any other rune makes NewReader fail
\* with an error that is ErrSyntax, and no chain.
C11_EscapeRule ==
    (phase # "compiling" /\ pattern # <<>>) =>
        /\ EscapeRead(pattern, <<>>).kind = "literal"
               => (phase # "failed" /\ parse = <<Literal(EscapeRead(pattern, <<>>).str)>>)
        /\ EscapeRead(pattern, <<>>).kind = "bad"
               => (phase = "failed" /\ cerr = "syntax" /\ parse = <<>>)

\* the text of each time handed to Write, as time.RFC3339 spells it
WhenText(t) ==
    CASE t = TimeA -> <<"2", "0", "2", "3", "-", "0", "5", "-", "0", "1", "T", "1", "0", ":", "2", "2", ":", "3", "1", "Z">>
      [] t = TimeB -> <<"1", "9", "9", "9", "-", "1", "2", "-", "3", "1", "T", "2", "3", ":", "5", "9", ":", "5", "9", "-", "0", "5", ":", "0", "0">>
      [] t = TimeC -> <<"2", "0", "2", "4", "-", "0", "2", "-", "2", "9", "T", "0", "0", ":", "3", "0", ":", "0", "0", "+", "0", "1", ":", "3", "0">>
      [] OTHER -> <<>>

\* the textual rendering of the field that the specifier x prints, empty
\* for an empty or zero field
FieldText(x, e) ==
    CASE x = "t" -> WhenText(e.When)
      [] x = "n" -> e.Process
      [] x = "p" -> IF e.Pid > 0 THEN Itoa(e.Pid) ELSE <<>>
      [] x = "u" -> e.User
      [] x = "g" -> e.Group
      [] x = "h" -> e.Host
      [] x = "l" -> e.Level
      [] x = "m" -> e.Message
      [] x = "#" -> e.Line

\* the word of index i, empty when e has no such word
WordText(i, e) == IF i + 1 \in DOMAIN e.Words THEN e.Words[i + 1] ELSE <<>>

\* a rendering, or the placeholder for none
Shown(str) == IF str = <<>> THEN <<"N", "/", "A">> ELSE str

WriterSpecifiers == {"t", "n", "p", "u", "g", "h", "l", "m", "#"}

\* C12: every specifier prints N/A for an empty or zero field (zero time,
\* pid not above 0, word index outside the words) and the rendering of the
\* field otherwise; an empty message through "%m" gives the line N/A.
C12_Placeholder ==
    \A k \in DOMAIN wlog :
        /\ \A x \in WriterSpecifiers :
               wpattern = <<"%", x>>
                   => wlog[k].line = Shown(FieldText(x, wlog[k].e)) \o <<"\n">>
        /\ \A d \in {0, 1, 7} :
               wpattern = <<"%", Digits[d + 1], "%", "m">>
                   => wlog[k].line = Shown(WordText(d, wlog[k].e))
                                        \o Shown(wlog[k].e.Message) \o <<"\n">>
        /\ (wpattern = <<"%", "m">> /\ wlog[k].e.Message = <<>>)
               => wlog[k].line = <<"N", "/", "A", "\n">>

\* C12: a record with an empty message and one with a message were written
\* through "%m"
C12_EmptyMessageWritten ==
    /\ wpattern = <<"%", "m">>
    /\ Len(wlog) = 2
    /\ wlog[1].e.Message = <<>>
    /\ wlog[2].e.Message # <<>>

\* the line that the pattern t stands for: its literal runs, "%%" as a
\* percent sign, and the rendering of every specifier, in order
RECURSIVE ExpectedLine(_, _)
ExpectedLine(t, e) ==
    IF t = <<>> THEN <<>>
    ELSE IF Head(t) # "%" \/ Len(t) < 2 THEN <<Head(t)>> \o ExpectedLine(Tail(t), e)
    ELSE IF t[2] = "%" THEN <<"%">> \o ExpectedLine(SubSeq(t, 3, Len(t)), e)
    ELSE IF t[2] \in WriterSpecifiers
    THEN Shown(FieldText(t[2], e)) \o ExpectedLine(SubSeq(t, 3, Len(t)), e)
    ELSE LET n == RunWhile(Tail(t), isDigit)
         IN  Shown(WordText(DecVal(SubSeq(t, 2, n + 1)), e))
                 \o ExpectedLine(SubSeq(t, n + 2, Len(t)), e)

\* C13: every Write emits exactly one line, which is the pattern with each
\* specifier replaced by its rendering, "%%" by a percent sign, and the
\* literal text kept, the text after the last specifier included, followed
\* by one newline.
C13_WholeLine ==
    /\ \A k \in DOMAIN wlog :
           wlog[k].line = ExpectedLine(wpattern, wlog[k].e) \o <<"\n">>
    /\ inner = Concat([k \in DOMAIN wlog |-> wlog[k].line])

\* the pattern is "%l(" arg ")" and nothing else
IsLevelPattern ==
    /\ Len(pattern) >= 4
    /\ SubSeq(pattern, 1, 3) = <<"%", "l", "(">>
    /\ RunBefore(pattern, ")") = Len(pattern) - 1

LevelArgument == SubSeq(pattern, 4, Len(pattern) - 1)

\* the level token of a line: the letters it starts with
LevelToken(line) == SubSeq(line, 1, RunWhile(line, isLetter))

\* whether the list arg lets the level token of line through
LevelAllowed(arg, line) ==
    LET list == SelectSeq(arg, LAMBDA r : r \notin {" ", "\t"})
    IN  \/ list = <<>>
        \/ arg = <<"-">>
        \/ LevelToken(line) \in Range(SplitComma(list))

\* C14: with %l(list) a line is accepted exactly when its level token is,
\* case-sensitively, an entry of the list (blanks ignored), every token
\* being accepted for an empty or "-" list; any other line is a mismatch,
\* which Read passes over to go on with the next line.
C14_LevelList ==
    (Ran /\ IsLevelPattern) =>
        /\ \A k \in DOMAIN log :
               log[k].err = IF LevelAllowed(LevelArgument, log[k].line) THEN "none" ELSE "pattern"
        /\ rerr \in {"none", scanEnd}
        /\ Yielded = SelectSeq(SubSeq(source, 1, next),
                               LAMBDA l : l # <<>> /\ LevelAllowed(LevelArgument, l))

\* C14: with %l(INFO,WARNING) the line DEBUG was dropped and the line INFO
\* after it was yielded
C14_DebugDropped ==
    /\ Ran
    /\ pattern = LevelWith(<<"I", "N", "F", "O", ",", "W", "A", "R", "N", "I", "N", "G">>)
    /\ source = <<<<"D", "E", "B", "U", "G">>, <<"I", "N", "F", "O">>>>
    /\ next = 2
    /\ Yielded = <<<<"I", "N", "F", "O">>>>

\* a non-empty run of decimal digits of value 0..255
IsOctet(x) ==
    /\ x # <<>>
    /\ \A k \in DOMAIN x : x[k] \in Range(Digits)
    /\ Len(TrimLeftZero(x)) <= 3
    /\ DecVal(x) <= 255

\* text of the form d.d.d.d
IsQuad(x) ==
    \E i, j, k \in DOMAIN x :
        /\ i < j /\ j < k
        /\ x[i] = "." /\ x[j] = "." /\ x[k] = "."
        /\ IsOctet(SubSeq(x, 1, i - 1))
        /\ IsOctet(SubSeq(x, i + 1, j - 1))
        /\ IsOctet(SubSeq(x, j + 1, k - 1))
        /\ IsOctet(SubSeq(x, k + 1, Len(x)))

\* text of the form d.d.d.d or [d.d.d.d]
IsIPv4Text(x) ==
    \/ IsQuad(x)
    \/ (Len(x) >= 2 /\ x[1] = "[" /\ x[Len(x)] = "]" /\ IsQuad(SubSeq(x, 2, Len(x) - 1)))

\* %4 was run on a line
ScannedIPv4 == scanIn.fn = "host" /\ scanIn.arg = <<"%", "4">> /\ scanOut.done

\* C15: %4 accepts only text of the form d.d.d.d, in brackets or not, each
\* d a non-empty run of digits of value 0..255; whatever else stands at the
\* cursor (an octet above 255, a missing dot, an empty octet, fewer than
\* four groups) is rejected, and rejected with the mismatch signal.
C15_DottedQuad ==
    ScannedIPv4 =>
        IF scanOut.err = "none"
        THEN IsIPv4Text(SubSeq(scanIn.line, 1, scanOut.at))
        ELSE scanOut.err = "pattern"

\* a time pattern was run on a line
ScannedTime == scanIn.fn = "time" /\ scanOut.done

\* the pattern holds the specifier %s
HasTimestamp(arg) == \E k \in 1..(Len(arg) - 1) : arg[k] = "%" /\ arg[k + 1] = "s"

\* the digits that %s read from the line: those that the line starts with,
\* or those after its first blank when the pattern starts with another
\* specifier
TimestampText(arg, line) ==
    LET from == IF SubSeq(arg, 1, 2) = <<"%", "s">> THEN 1 ELSE RunBefore(line, " ") + 2
        rest == SubSeq(line, from, Len(line))
    IN  SubSeq(rest, 1, RunWhile(rest, isDigit))

\* C16: when %s has populated the Unix component, the time is that Unix
\* instant, whatever year, month, day, hour, minute, second, zone and day
\* of year the same pattern has read.
C16_UnixPrecedence ==
    (ScannedTime /\ HasTimestamp(scanIn.arg) /\ scanOut.err = "none") =>
        LET u == Unix(DecVal(TimestampText(scanIn.arg, scanIn.line)))
        IN  /\ scanOut.t.days = u.days
            /\ scanOut.t.secs = u.secs
            /\ scanOut.t.nsec = 0

\* the rune r is the lower-case letter l or its upper case
SameLetter(r, l) == r = l \/ (l \in Range(Lower) /\ r = Upper[IndexOf(Lower, l)])

\* the line starts with three letters that spell, in any case, a name of table
StartsWithName(line, table) ==
    /\ Len(line) >= 3
    /\ \E n \in DOMAIN table : \A k \in 1..3 : SameLetter(line[k], table[n][k])

\* C17: %a and %b accept three letters that spell, in any mix of cases, a
\* name of the English table (mon..sun, jan..dec), and reject with the
\* mismatch signal every other text: three letters outside the table, and
\* fewer than three letters.
C17_NameTables ==
    /\ (ScannedTime /\ scanIn.arg = <<"%", "a">>) =>
           scanOut.err = IF StartsWithName(scanIn.line, daysDecl) THEN "none" ELSE "pattern"
    /\ (ScannedTime /\ scanIn.arg = <<"%", "b">>) =>
           scanOut.err = IF StartsWithName(scanIn.line, monthsDecl) THEN "none" ELSE "pattern"

\* C17: %a has accepted a day name written in mixed case
C17_MixedCaseAccepted ==
    /\ ScannedTime
    /\ scanIn.arg = <<"%", "a">>
    /\ scanIn.line = <<"t", "U", "e">>
    /\ scanOut.err = "none"

\* what was run matched the line exactly as the pattern long matches it,
\* with the same accumulator
MatchesAs(long) ==
    /\ (scanOut.err = "none") = (timeRun(long, scanIn.line).err = "none")
    /\ scanOut.err = "none" => (/\ scanOut.w = timeRun(long, scanIn.line).w
                                /\ scanOut.at = timeRun(long, scanIn.line).at)

\* C18: %I matches exactly what "%y-%m-%d %H:%M:%S%Z" matches, and %R
\* exactly what "%y-%m-%dT%H:%M:%S%Z" matches, with the same accumulator.
C18_Shorthands ==
    /\ (ScannedTime /\ scanIn.arg = <<"%", "I">>) => MatchesAs(isoPattern)
    /\ (ScannedTime /\ scanIn.arg = <<"%", "R">>) => MatchesAs(rfcPattern)

\* parseInt of width 0 was run on a line
ScannedInt == scanIn.fn = "int" /\ scanOut.done

\* the digits that the line starts with
DigitRun(line) == SubSeq(line, 1, RunWhile(line, isDigit))

HostPort == <<"1", "9", "2", ".", "1", "6", "8", ".", "1", ".", "1", "0", ":", "2", "2">>

\* C19: with at least one digit at the cursor, parseInt of width 0
\* succeeds, stores the value of the whole run of digits and leaves the
\* cursor right after the run, whether a rune that is no digit or the end
\* of the line ends the run; so "192.168.1.10:22" read with %h(%4:%p)
\* gives the host "192.168.1.10:22".
C19_DigitRun ==
    /\ (ScannedInt /\ Len(DigitRun(scanIn.line)) \in 1..MaxIntLen) =>
           /\ scanOut.err = "none"
           /\ scanOut.val = DecVal(DigitRun(scanIn.line))
           /\ scanOut.at = Len(DigitRun(scanIn.line))
    /\ (scanIn.fn = "host" /\ scanOut.done /\ scanIn.arg = <<"%", "4", ":", "%", "p">>
            /\ scanIn.line = HostPort) =>
           (scanOut.err = "none" /\ scanOut.host = HostPort)

\* C20: when the rune at the cursor is no digit, parseInt of width 0 reads
\* no digit and fails with the mismatch signal.
C20_NoDigit ==
    (ScannedInt /\ scanIn.line # <<>> /\ scanIn.line[1] \notin Range(Digits)) =>
        scanOut.err = "pattern"

\* the offset that a zone text stands for: the sign, applied to the hours
\* and to the minutes that follow them, with a colon in between or none
ZoneSeconds(line) ==
    LET rest == SubSeq(line, 4, Len(line))
        mm == IF rest # <<>> /\ Head(rest) = ":" THEN Tail(rest) ELSE rest
        secs == DecVal(SubSeq(line, 2, 3)) * 3600 + DecVal(mm) * 60
    IN  IF line[1] = "-" THEN 0 - secs ELSE secs

\* C21: %Z sets the zone to s*(hh*3600 + mm*60) seconds for "s hh mm" and
\* "s hh:mm", to s*hh*3600 for "s hh", and leaves it 0 for "Z".
C21_ZoneOffset ==
    (ScannedTime /\ scanIn.arg = <<"%", "Z">>) =>
        /\ scanOut.err = "none"
        /\ scanOut.w.Zone = IF scanIn.line = <<"Z">> THEN 0 ELSE ZoneSeconds(scanIn.line)

\* the pattern holds the specifier %j
HasYearDay(arg) == \E k \in 1..(Len(arg) - 1) : arg[k] = "%" /\ arg[k + 1] = "j"

\* C22: when %j has read a day of the year N > 0, and no %s a timestamp,
\* the day of the year of the time is N.
C22_DayOfYear ==
    (ScannedTime /\ HasYearDay(scanIn.arg) /\ scanOut.err = "none"
        /\ scanOut.w.YearDay > 0 /\ scanOut.w.Unix = 0) =>
        YearDay(scanOut.t) = scanOut.w.YearDay

ScannedIPv6 == scanIn.fn = "host" /\ scanIn.arg = <<"%", "6">> /\ scanOut.done

\* the groups of an address text, colon-separated
RECURSIVE SplitColon(_)
SplitColon(s) ==
    IF ":" \notin Range(s) THEN <<s>>
    ELSE <<SubSeq(s, 1, IndexRune(s, ":") - 1)>>
             \o SplitColon(SubSeq(s, IndexRune(s, ":") + 1, Len(s)))

\* the value of a group of hexadecimal digits
RECURSIVE HexVal(_)
HexVal(s) ==
    IF s = <<>> THEN 0
    ELSE 16 * HexVal(SubSeq(s, 1, Len(s) - 1))
             + (IndexOf(HexDigits, ToLowerRune(s[Len(s)])) - 1)

\* the address text of a line: what stands before the ";" or in the brackets
AddressText(line) ==
    IF line # <<>> /\ Head(line) = "["
    THEN SubSeq(line, 2, Len(line) - 1)
    ELSE SubSeq(line, 1, Len(line) - 1)

\* a line that is an address of 1 to 8 groups of 1 to 4 hexadecimal digits,
\* before a ";" or in brackets
IsAddress6(line) ==
    /\ Len(line) >= 2
    /\ \/ Head(line) = "[" /\ line[Len(line)] = "]"
       \/ Head(line) # "[" /\ line[Len(line)] = ";"
    /\ LET gs == SplitColon(AddressText(line))
       IN  /\ Len(gs) <= ip6len
           /\ \A k \in DOMAIN gs :
                  /\ Len(gs[k]) \in 1..4
                  /\ \A j \in DOMAIN gs[k] : gs[k][j] \in isHexa

\* the address in the host text of the record, which host.String() writes
\* as the address, a colon and the port
StoredAddr(host) == SubSeq(host, 1, Len(host) - Len(<<":">> \o Itoa(0)))

\* the values of the groups of an address text
GroupValues(text) ==
    LET gs == SplitColon(text) IN [k \in DOMAIN gs |-> HexVal(gs[k])]

\* C23: %6 accepts an address of up to 8 colon-separated groups of
\* hexadecimal digits, and the stored address text has the group values of
\* the scanned text; a group with a letter a-f does not fail.
C23_HexGroups ==
    (ScannedIPv6 /\ IsAddress6(scanIn.line)) =>
        /\ scanOut.err = "none"
        /\ GroupValues(StoredAddr(scanOut.host)) = GroupValues(AddressText(scanIn.line))

\* the calendar number of the month that the line starts with
MonthNumber(line) ==
    CHOOSE n \in DOMAIN monthsDecl : \A k \in 1..3 : SameLetter(line[k], monthsDecl[n][k])

\* C24: after %b has matched a month abbreviation, the month of the time
\* accumulator is the calendar number of that month (jan = 1 .. dec = 12).
C24_MonthNumber ==
    (ScannedTime /\ scanIn.arg = <<"%", "b">> /\ scanOut.err = "none") =>
        scanOut.w.Mon = MonthNumber(scanIn.line)

\* C25: after the string scanner of length 3 has succeeded for %a or %b
\* the cursor stands 3 runes further, and the element that follows the name
\* in the pattern sees the rune after the name: "%b %d" matches "Jan 05".
C25_CursorAfterName ==
    /\ (ScannedTime /\ scanIn.arg \in {<<"%", "a">>, <<"%", "b">>} /\ scanOut.err = "none") =>
           scanOut.at = 3
    /\ (ScannedTime /\ scanIn.arg = <<"%", "b", " ", "%", "d">>
           /\ scanIn.line = <<"J", "a", "n", " ", "0", "5">>) =>
           (scanOut.err = "none" /\ scanOut.w.Day = 5 /\ scanOut.at = 6)

\* the pattern is some plain text, one of %t, %h and %l with no "(" after
\* it, and some plain text
IsBarePattern ==
    \E k \in 1..(Len(pattern) - 1) :
        /\ pattern[k] = "%"
        /\ pattern[k + 1] \in {"t", "h", "l"}
        /\ (k + 2 <= Len(pattern) => pattern[k + 2] # "(")
        /\ \A j \in DOMAIN pattern \ {k} : pattern[j] \notin {"%", "@", "\\", "|", ")"}

\* the specifier of such a pattern
BareSpecifier == pattern[IndexRune(pattern, "%") + 1]

\* the function of the specifier r with its default argument written out
DefaultFn(r) ==
    LET option == CASE r = "t" -> rfcPattern
                    [] r = "h" -> <<"%", "f">>
                    [] r = "l" -> <<"-">>
    IN  parseSpecifier(<<"(">> \o option \o <<")">>, 0, r).fn

\* NewReader has returned, with a Reader or with an error
Returned == phase \in {"ready", "hung", "failed"}

\* C26: %t, %h or %l with no "(" after it compiles, with its default
\* argument, wherever it stands in the pattern, the end of the pattern
\* included.
C26_DefaultArgument ==
    (Returned /\ IsBarePattern) =>
        /\ phase # "failed"
        /\ cerr = "none"
        /\ \E k \in DOMAIN parse : parse[k] = DefaultFn(BareSpecifier)

\* the pattern is one alternation of two branches and nothing else
IsTwoBranches ==
    /\ Len(parse) = 1
    /\ parse[1].op = "alt"
    /\ Len(parse[1].alts) = 2

\* what branch k of that alternation makes of line, run on an empty record
branch(k, line) == mergeParse(parse[1].alts[k], ZeroEntry, line, Cursor(0), <<>>)

\* C27: when a branch of an alternation fails after it has written into
\* the record and a later branch succeeds, the record holds what the
\* successful branch wrote and nothing of the failed one. Here for a Read
\* that ran one line through an alternation of two branches.
C27_FailedBranchLeavesNothing ==
    (Ran /\ IsTwoBranches /\ Len(log) = 1 /\ ret.err = "none"
        /\ branch(1, log[1].line).err # "none"
        /\ branch(1, log[1].line).e # ZeroEntry
        /\ branch(2, log[1].line).err = "none") =>
        ret.e = setLine(branch(2, log[1].line).e, log[1].line)

====
